---- MODULE Spec2Model ----
(***************************************************************************)
(* Keyword-intelligence pipeline of amazon-ppc-tool:                       *)
(*   services/ai_bidding.py  EnhancedAIBiddingPredictor (scoring engine)   *)
(*   services/scraper.py     AmazonIndiaScraper (expander, bulk analysis)  *)
(*                                                                         *)
(* Numbers.  Python floats are modelled as exact decimals held in scaled   *)
(* integers; the scale is part of the field name's comment:                *)
(*   competition_score   in 1/40   (mean of four factors given in tenths)  *)
(*   estimated_cpc, bids in 1/100  (round(x, 2))                           *)
(*   seasonal_factor     in 1/25   (current_trend / 25)                    *)
(*   confidence          in 1/100                                          *)
(* Binary floating-point representation error is not modelled, except that *)
(* the direction of a decimal rounding tie is an input (fround).           *)
(* Strings are TLA+ strings; Python's str methods are operators below.     *)
(***************************************************************************)
EXTENDS Integers, Sequences, FiniteSets, TLC

\* ------------------------------------------------------------------------
\* Bounds of the model
\* ------------------------------------------------------------------------
MaxSeed == 1
MaxBatch == 6
MaxShared == 3
MaxLimit == 3
MaxShuffle == 2

\* ------------------------------------------------------------------------
\* Python str operations
\* ------------------------------------------------------------------------
Min(a, b) == IF a <= b THEN a ELSE b
Max(a, b) == IF a >= b THEN a ELSE b
Abs(a) == IF a < 0 THEN -a ELSE a

Chr(s, i) == SubSeq(s, i, i)

UpperLetters == "ABCDEFGHIJKLMNOPQRSTUVWXYZ"
LowerLetters == "abcdefghijklmnopqrstuvwxyz"

\* str.lower() on one character
LowerChar(c) ==
    IF \E i \in 1..26 : Chr(UpperLetters, i) = c
    THEN LET i == CHOOSE j \in 1..26 : Chr(UpperLetters, j) = c
         IN  Chr(LowerLetters, i)
    ELSE c

\* str.lower()
PyLower(s) ==
    LET F[i \in 0..Len(s)] ==
            IF i = 0 THEN "" ELSE F[i - 1] \o LowerChar(Chr(s, i))
    IN  F[Len(s)]

IsSpace(c) == c = " "

\* str.strip()
PyStrip(s) ==
    LET idx == {i \in 1..Len(s) : ~IsSpace(Chr(s, i))}
    IN  IF idx = {} THEN ""
        ELSE LET lo == CHOOSE i \in idx : \A j \in idx : i <= j
                 hi == CHOOSE i \in idx : \A j \in idx : i >= j
             IN  SubSeq(s, lo, hi)

\* len(s.split()): the number of maximal runs of non-whitespace
WordCount(s) ==
    Cardinality({i \in 1..Len(s) :
                    /\ ~IsSpace(Chr(s, i))
                    /\ (i = 1 \/ IsSpace(Chr(s, i - 1)))})

\* `w in s` for strings: substring containment
Contains(s, w) ==
    \E i \in 1..(Len(s) - Len(w) + 1) : SubSeq(s, i, i + Len(w) - 1) = w

\* any(word in s for word in words), words a sequence of strings
AnyIn(words, s) == \E k \in 1..Len(words) : Contains(s, words[k])

\* `x in list`
InList(x, list) == \E k \in 1..Len(list) : list[k] = x

\* hash(str): CPython salts str hashes with a per-process seed
\* (PYTHONHASHSEED), so the value is a function of (seed, string) and is
\* signed.  Modelled as a salted polynomial hash over 2^16 values.
Alphabet == " abcdefghijklmnopqrstuvwxyzABCDEFGHIJKLMNOPQRSTUVWXYZ0123456789"
Ord(c) ==
    IF \E i \in 1..Len(Alphabet) : Chr(Alphabet, i) = c
    THEN CHOOSE i \in 1..Len(Alphabet) : Chr(Alphabet, i) = c
    ELSE 0
PyHash(seed, s) ==
    LET F[i \in 0..Len(s)] ==
            IF i = 0 THEN (seed * 40503 + 17) % 65536
            ELSE (F[i - 1] * 131 + Ord(Chr(s, i))) % 65536
    IN  F[Len(s)] - 32768

\* round(n/d) to an integer, d > 0; a tie goes the way `tie` says
\* ("up" = away from floor, "down" = to floor)
RoundDiv(n, d, tie) ==
    LET q == n \div d
        r == n % d
    IN  IF 2 * r > d THEN q + 1
        ELSE IF 2 * r < d THEN q
        ELSE IF tie = "up" THEN q + 1 ELSE q

\* int(n/d): truncation toward zero
TruncDiv(n, d) == IF n >= 0 THEN n \div d ELSE -((-n) \div d)

\* ------------------------------------------------------------------------
\* EnhancedAIBiddingPredictor.__init__ : the constant tables
\* ------------------------------------------------------------------------
\* variant of category_base_cpc without the row of 'sports'
category_base_cpc_without_sports ==
    [electronics  |-> [min |-> 8,  max |-> 25],
     fashion      |-> [min |-> 5,  max |-> 15],
     books        |-> [min |-> 3,  max |-> 12],
     home_kitchen |-> [min |-> 6,  max |-> 18],
     health       |-> [min |-> 10, max |-> 30],
     beauty       |-> [min |-> 8,  max |-> 22],
     default      |-> [min |-> 5,  max |-> 18]]

category_base_cpc ==
    [electronics  |-> [min |-> 8,  max |-> 25],
     fashion      |-> [min |-> 5,  max |-> 15],
     books        |-> [min |-> 3,  max |-> 12],
     home_kitchen |-> [min |-> 6,  max |-> 18],
     health       |-> [min |-> 10, max |-> 30],
     beauty       |-> [min |-> 8,  max |-> 22],
     sports       |-> [min |-> 7,  max |-> 20],
     default      |-> [min |-> 5,  max |-> 18]]

\* multiplier in tenths (2.5 is 25)
category_volume_multipliers ==
    [electronics  |-> [base |-> 8000, multiplier |-> 25],
     fashion      |-> [base |-> 6000, multiplier |-> 20],
     books        |-> [base |-> 3000, multiplier |-> 12],
     home_kitchen |-> [base |-> 5000, multiplier |-> 18],
     health       |-> [base |-> 7000, multiplier |-> 22],
     beauty       |-> [base |-> 6500, multiplier |-> 21],
     sports       |-> [base |-> 4500, multiplier |-> 16],
     default      |-> [base |-> 4000, multiplier |-> 15]]

high_intent_words ==
    <<"buy", "price", "cost", "cheap", "best", "top", "deal", "discount", "offer">>
brand_indicators == <<"brand", "original", "genuine", "authentic">>

seasonal_trends ==
    [electronics |-> <<5, 10, 15, 20, 25, 30, 35, 40, 45, 35, 25, 15>>,
     fashion     |-> <<20, 25, 30, 35, 40, 30, 20, 15, 25, 35, 40, 45>>,
     health      |-> <<40, 35, 30, 25, 20, 15, 20, 25, 30, 35, 40, 45>>,
     default     |-> <<25, 25, 25, 25, 25, 25, 25, 25, 25, 25, 25, 25>>]

\* ------------------------------------------------------------------------
\* EnhancedAIBiddingPredictor : the scoring engine
\* ------------------------------------------------------------------------
\* variant that tests the fashion words before the electronics words
categorize_fashion_first(keyword) ==
    LET keyword_lower == PyLower(keyword)
    IN  IF AnyIn(<<"shirt", "dress", "saree", "jeans", "shoes", "bag">>, keyword_lower)
        THEN "fashion"
        ELSE IF AnyIn(<<"phone", "mobile", "laptop", "tablet", "headphone", "speaker", "camera">>, keyword_lower)
        THEN "electronics"
        ELSE IF AnyIn(<<"book", "novel", "guide", "manual">>, keyword_lower)
        THEN "books"
        ELSE IF AnyIn(<<"kitchen", "home", "furniture", "decor">>, keyword_lower)
        THEN "home_kitchen"
        ELSE IF AnyIn(<<"vitamin", "supplement", "medicine", "health">>, keyword_lower)
        THEN "health"
        ELSE IF AnyIn(<<"cream", "lotion", "makeup", "beauty", "skin">>, keyword_lower)
        THEN "beauty"
        ELSE IF AnyIn(<<"sports", "fitness", "gym", "exercise">>, keyword_lower)
        THEN "sports"
        ELSE "default"

categorize_keyword(keyword) ==
    LET keyword_lower == PyLower(keyword)
    IN  IF AnyIn(<<"phone", "mobile", "laptop", "tablet", "headphone", "speaker", "camera">>, keyword_lower)
        THEN "electronics"
        ELSE IF AnyIn(<<"shirt", "dress", "saree", "jeans", "shoes", "bag">>, keyword_lower)
        THEN "fashion"
        ELSE IF AnyIn(<<"book", "novel", "guide", "manual">>, keyword_lower)
        THEN "books"
        ELSE IF AnyIn(<<"kitchen", "home", "furniture", "decor">>, keyword_lower)
        THEN "home_kitchen"
        ELSE IF AnyIn(<<"vitamin", "supplement", "medicine", "health">>, keyword_lower)
        THEN "health"
        ELSE IF AnyIn(<<"cream", "lotion", "makeup", "beauty", "skin">>, keyword_lower)
        THEN "beauty"
        ELSE IF AnyIn(<<"sports", "fitness", "gym", "exercise">>, keyword_lower)
        THEN "sports"
        ELSE "default"

\* the value before max(1, min(100, .)): int(volume_score - penalty + bonuses)
\*   volume_score = min(40, v/500); penalty = (c/40)*30; all over 2000
magnet_score_raw(keyword, search_volume, competition_score) ==
    LET volume_score2000 == Min(40 * 2000, search_volume * 4)
        competition_penalty2000 == competition_score * 1500
        intent_bonus == IF AnyIn(high_intent_words, PyLower(keyword)) THEN 20 ELSE 0
        length_bonus == Max(0, 15 - WordCount(keyword) * 2)
    IN  TruncDiv(volume_score2000 - competition_penalty2000
                    + 2000 * (intent_bonus + length_bonus), 2000)

\* variant without the lower clamp: min(100, int(magnet_score))
magnet_iq_score_unclamped(keyword, search_volume, competition_score) ==
    Min(100, magnet_score_raw(keyword, search_volume, competition_score))

\* variant that rounds to the nearest integer: max(1, min(100, round(magnet_score)))
magnet_iq_score_rounded(keyword, search_volume, competition_score) ==
    LET volume_score2000 == Min(40 * 2000, search_volume * 4)
        competition_penalty2000 == competition_score * 1500
        intent_bonus == IF AnyIn(high_intent_words, PyLower(keyword)) THEN 20 ELSE 0
        length_bonus == Max(0, 15 - WordCount(keyword) * 2)
    IN  Max(1, Min(100, RoundDiv(volume_score2000 - competition_penalty2000
                    + 2000 * (intent_bonus + length_bonus), 2000, "up")))

calculate_magnet_iq_score(keyword, search_volume, competition_score) ==
    Max(1, Min(100, magnet_score_raw(keyword, search_volume, competition_score)))

\* month is datetime.now().month (1..12); trend_change is n/d with
\* d = previous_trend; seasonal_factor is current_trend (in 1/25)
calculate_search_volume_trend(keyword, category, month, seed, tie) ==
    LET current_month == month - 1
        seasonal_pattern == IF category \in DOMAIN seasonal_trends
                            THEN seasonal_trends[category]
                            ELSE seasonal_trends["default"]
        current_trend == seasonal_pattern[current_month + 1]
        previous_trend == seasonal_pattern[((current_month - 1) % 12) + 1]
        keyword_hash == (Abs(PyHash(seed, keyword)) % 20) - 10
        trend_change_n == (current_trend - previous_trend) * 100
                            + keyword_hash * previous_trend
    IN  [trend_percentage |-> RoundDiv(trend_change_n, previous_trend, tie),
         trend_direction  |-> IF trend_change_n > 0 THEN "up"
                              ELSE IF trend_change_n < 0 THEN "down"
                              ELSE "stable",
         seasonal_factor  |-> current_trend]

\* base * multiplier is a whole number for every row of the table, so the
\* product is taken as (base * tenths) \div 10 to stay within 32 bits
estimate_enhanced_search_volume(keyword, category, month, seed, tie) ==
    LET volume_config == category_volume_multipliers[category]
        base_volume == volume_config.base
        multiplier == volume_config.multiplier
        length_factor100 == Max(30, 100 - (WordCount(keyword) - 2) * 15)
        is_branded == AnyIn(brand_indicators, PyLower(keyword))
        brand_factor10 == IF is_branded THEN 7 ELSE 10
        intent_factor10 == IF AnyIn(high_intent_words, PyLower(keyword)) THEN 13 ELSE 10
        estimated_volume ==
            TruncDiv(((base_volume * multiplier) \div 10) * length_factor100
                        * brand_factor10 * intent_factor10, 10000)
        keyword_variation == Abs(PyHash(seed, keyword)) % 5000
    IN  [search_volume |-> estimated_volume + keyword_variation,
         trend_data    |-> calculate_search_volume_trend(keyword, category, month, seed, tie)]

\* factors in tenths; competition_score in 1/40 (sum of tenths / 4).
\* Python adds the factors as floats: the float sum is the exact value for
\* every keyword except a ten-word keyword with an intent word and no brand
\* word (0.39999999999999997 for 0.4), which the keyword pools leave out.
competition_factors(keyword) ==
    LET wc == WordCount(keyword)
    IN  [length  |-> Max(0, 10 - (wc - 2)),
         generic |-> IF wc <= 2 THEN 8 ELSE 4,
         brand   |-> IF AnyIn(brand_indicators, PyLower(keyword)) THEN 6 ELSE 3,
         intent  |-> IF AnyIn(high_intent_words, PyLower(keyword)) THEN 7 ELSE 4]

\* variant whose thresholds include the boundary: <= 0.4, <= 0.7
competition_level_inclusive(competition_score) ==
    IF competition_score <= 16 THEN "low"
    ELSE IF competition_score <= 28 THEN "medium"
    ELSE "high"

\* the if/elif/else on competition_score (in 1/40): < 0.4, < 0.7
competition_level_of(competition_score) ==
    IF competition_score < 16 THEN "low"
    ELSE IF competition_score < 28 THEN "medium"
    ELSE "high"

calculate_competition_analysis(keyword, seed) ==
    LET factors == competition_factors(keyword)
        competition_score ==
            Min(40, factors.length + factors.generic + factors.brand + factors.intent)
    IN  [competition_score     |-> competition_score,
         competition_level     |-> competition_level_of(competition_score),
         organic_competitors   |-> TruncDiv(competition_score * 50
                                        + 40 * (Abs(PyHash(seed, keyword)) % 30), 40),
         sponsored_competitors |-> TruncDiv(competition_score * 20
                                        + 40 * (Abs(PyHash(seed, keyword \o "ads")) % 15), 40),
         competition_factors   |-> factors]

\* str.upper() on one character
UpperChar(c) ==
    IF \E i \in 1..26 : Chr(LowerLetters, i) = c
    THEN LET i == CHOOSE j \in 1..26 : Chr(LowerLetters, j) = c
         IN  Chr(UpperLetters, i)
    ELSE c

\* category.replace('_', ' ').title()
CategoryTitle(category) ==
    LET spaced(i) == IF Chr(category, i) = "_" THEN " " ELSE Chr(category, i)
        F[i \in 0..Len(category)] ==
            IF i = 0 THEN ""
            ELSE F[i - 1] \o (IF i = 1 \/ spaced(i - 1) = " "
                              THEN UpperChar(spaced(i))
                              ELSE LowerChar(spaced(i)))
    IN  F[Len(category)]

\* variant that appends the category clause first
enhanced_reasons_category_first(keyword, category, competition, cpc, magnet_iq) ==
    <<CategoryTitle(category) \o " category analysis">>
    \o (IF magnet_iq > 70 THEN <<"High-opportunity keyword">>
        ELSE IF magnet_iq < 30 THEN <<"Low-opportunity keyword">>
        ELSE <<>>)
    \o (IF competition > 28 THEN <<"High competition market">>
        ELSE IF competition < 16 THEN <<"Low competition opportunity">>
        ELSE <<>>)
    \o (IF WordCount(keyword) > 3 THEN <<"Long-tail advantage">> ELSE <<>>)
    \o (IF AnyIn(high_intent_words, PyLower(keyword))
        THEN <<"High purchase intent">> ELSE <<>>)

\* the list `reasons` before " | ".join; competition in 1/40
enhanced_reasons(keyword, category, competition, cpc, magnet_iq) ==
    (IF magnet_iq > 70 THEN <<"High-opportunity keyword">>
     ELSE IF magnet_iq < 30 THEN <<"Low-opportunity keyword">>
     ELSE <<>>)
    \o (IF competition > 28 THEN <<"High competition market">>
        ELSE IF competition < 16 THEN <<"Low competition opportunity">>
        ELSE <<>>)
    \o (IF WordCount(keyword) > 3 THEN <<"Long-tail advantage">> ELSE <<>>)
    \o (IF AnyIn(high_intent_words, PyLower(keyword))
        THEN <<"High purchase intent">> ELSE <<>>)
    \o <<CategoryTitle(category) \o " category analysis">>

\* sep.join(list)
PyJoin(sep, list) ==
    LET F[i \in 0..Len(list)] ==
            IF i = 0 THEN ""
            ELSE IF i = 1 THEN list[1]
            ELSE F[i - 1] \o sep \o list[i]
    IN  F[Len(list)]

_generate_enhanced_reasoning(keyword, category, competition, cpc, magnet_iq) ==
    PyJoin(" | ", enhanced_reasons(keyword, category, competition, cpc, magnet_iq))

\* estimated_cpc in 1/100:
\*   base_cpc          = A/40      A = 40*min + (max-min)*competition_score
\*   volume_multiplier = B/100000  B = 100000 + min(30000, search_volume)
\*   trend_multiplier  = C/250     C = 250 + (seasonal_factor - 25)
\* round(100 * A*B*C / 10^9) is computed in pieces that fit 32 bits.
estimated_cpc_of(cpc_range, competition_score, search_volume, seasonal_factor, tie) ==
    LET A == 40 * cpc_range.min + (cpc_range.max - cpc_range.min) * competition_score
        B == 100000 + Min(30000, search_volume)
        C == 250 + (seasonal_factor - 25)
        X == A * C
        U == X * (B % 1000)
        T == X * (B \div 1000) + (U \div 1000)
        q == T \div 10000
        r == (T % 10000) * 1000 + (U % 1000)
    IN  IF r > 5000000 THEN q + 1
        ELSE IF r < 5000000 THEN q
        ELSE IF tie = "up" THEN q + 1 ELSE q

\* variant with the conservative factor 1.2 in place of 0.8
suggested_bids_raised(estimated_cpc, tie) ==
    [conservative |-> RoundDiv(estimated_cpc * 12, 10, tie),
     optimal      |-> RoundDiv(estimated_cpc * 11, 10, tie),
     aggressive   |-> RoundDiv(estimated_cpc * 14, 10, tie)]

\* suggested_bids from estimated_cpc (both in 1/100)
suggested_bids_of(estimated_cpc, tie) ==
    [conservative |-> RoundDiv(estimated_cpc * 8, 10, tie),
     optimal      |-> RoundDiv(estimated_cpc * 11, 10, tie),
     aggressive   |-> RoundDiv(estimated_cpc * 14, 10, tie)]

\* month = datetime.now().month, seed = the process's hash seed,
\* aba = the three values drawn from the random module
predict_optimal_bid_enhanced(keyword, month, seed, tie, aba) ==
    LET category == categorize_keyword(keyword)
        volume_data == estimate_enhanced_search_volume(keyword, category, month, seed, tie)
        search_volume == volume_data.search_volume
        competition_data == calculate_competition_analysis(keyword, seed)
        competition_score == competition_data.competition_score
        magnet_iq == calculate_magnet_iq_score(keyword, search_volume, competition_score)
        cpc_range == category_base_cpc[category]
        estimated_cpc == estimated_cpc_of(cpc_range, competition_score, search_volume,
                                          volume_data.trend_data.seasonal_factor, tie)
    IN  [keyword          |-> keyword,
         category         |-> category,
         search_volume    |-> search_volume,
         estimated_cpc    |-> estimated_cpc,
         suggested_bids   |-> suggested_bids_of(estimated_cpc, tie),
         magnet_iq_score  |-> magnet_iq,
         competition_data |-> competition_data,
         trend_data       |-> volume_data.trend_data,
         aba_data         |-> aba,
         confidence       |-> RoundDiv(3400 - 20 * competition_score, 40, tie),
         reasoning        |-> _generate_enhanced_reasoning(keyword, category,
                                  competition_score, estimated_cpc, magnet_iq),
         market           |-> "India",
         currency         |-> "INR"]

\* The exception that predict_optimal_bid_enhanced raises on a str keyword,
\* "" when it raises none:
\*   KeyError           category_volume_multipliers[category] (line 106),
\*                      category_base_cpc[category] (line 184)
\*   IndexError         seasonal_pattern[current_month] and
\*                      seasonal_pattern[(current_month - 1) % 12] (lines 87-88)
\*   ZeroDivisionError  the division by previous_trend (line 91)
scoring_exception(keyword, month) ==
    LET category == categorize_keyword(keyword)
        seasonal_pattern == IF category \in DOMAIN seasonal_trends
                            THEN seasonal_trends[category]
                            ELSE seasonal_trends["default"]
        current_month == month - 1
        previous_month == (current_month - 1) % 12
    IN  IF category \notin DOMAIN category_volume_multipliers THEN "KeyError"
        ELSE IF current_month >= Len(seasonal_pattern) THEN "IndexError"
        ELSE IF previous_month >= Len(seasonal_pattern) THEN "IndexError"
        ELSE IF seasonal_pattern[previous_month + 1] = 0 THEN "ZeroDivisionError"
        ELSE IF category \notin DOMAIN category_base_cpc THEN "KeyError"
        ELSE ""

\* what a call of predict_optimal_bid_enhanced gives: the record, or the
\* exception raised
predict_call(keyword, month, seed, tie, aba) ==
    IF scoring_exception(keyword, month) # ""
    THEN [exception |-> scoring_exception(keyword, month)]
    ELSE predict_optimal_bid_enhanced(keyword, month, seed, tie, aba)

\* ------------------------------------------------------------------------
\* AmazonIndiaScraper : keyword expansion
\* ------------------------------------------------------------------------
indian_modifiers ==
    [prefixes |->
        <<"best", "cheap", "top", "branded", "original", "quality", "premium",
          "new", "latest", "good", "popular", "trending", "recommended",
          "affordable", "budget", "luxury", "professional", "commercial">>,
     suffixes |->
        <<"online", "india", "price", "deal", "offer", "sale", "review",
          "buy", "shop", "brand", "cost", "rate", "flipkart", "amazon",
          "discount", "wholesale", "retail", "market", "store", "purchase">>,
     intent_words |->
        <<"buy", "purchase", "order", "shop", "get", "find", "search",
          "compare", "vs", "versus", "review", "rating", "feedback">>,
     location_words |->
        <<"india", "delhi", "mumbai", "bangalore", "chennai", "kolkata",
          "hyderabad", "pune", "online", "nationwide", "local">>]

\* [s.lower() for s in list]
LowerAll(list) == [k \in 1..Len(list) |-> PyLower(list[k])]

\* list[:n], Python slice semantics (a negative n counts from the end)
PyPrefix(list, n) ==
    IF n >= 0 THEN SubSeq(list, 1, Min(n, Len(list)))
    ELSE SubSeq(list, 1, Max(0, Len(list) + n))

\* the list `variations` before the final filter (strategies 1 to 7)
expansion_variations(seed_keyword, existing_lower) ==
    LET pre == indian_modifiers.prefixes
        suf == indian_modifiers.suffixes
        int == indian_modifiers.intent_words
        loc == indian_modifiers.location_words
        NotExisting(v) == ~InList(PyLower(v), existing_lower)
        s1 == SelectSeq([k \in 1..Len(pre) |-> pre[k] \o " " \o seed_keyword], NotExisting)
        s2 == SelectSeq([k \in 1..Len(suf) |-> seed_keyword \o " " \o suf[k]], NotExisting)
        s3 == [j \in 1..(3 * Len(int)) |->
                LET w == int[((j - 1) \div 3) + 1]
                IN  CASE (j - 1) % 3 = 0 -> w \o " " \o seed_keyword
                      [] (j - 1) % 3 = 1 -> seed_keyword \o " to " \o w
                      [] OTHER           -> "how to " \o w \o " " \o seed_keyword]
        s4 == [j \in 1..(3 * Len(loc)) |->
                LET w == loc[((j - 1) \div 3) + 1]
                IN  CASE (j - 1) % 3 = 0 -> seed_keyword \o " in " \o w
                      [] (j - 1) % 3 = 1 -> seed_keyword \o " " \o w
                      [] OTHER           -> w \o " " \o seed_keyword]
        commercial_patterns ==
            <<seed_keyword \o " for sale",
              seed_keyword \o " best price",
              "buy " \o seed_keyword \o " online",
              seed_keyword \o " lowest price",
              seed_keyword \o " amazon india",
              seed_keyword \o " flipkart",
              "cheap " \o seed_keyword \o " online",
              seed_keyword \o " with discount",
              seed_keyword \o " bulk order",
              "wholesale " \o seed_keyword,
              seed_keyword \o " home delivery",
              seed_keyword \o " cash on delivery">>
        question_patterns ==
            <<"what is " \o seed_keyword,
              "how to use " \o seed_keyword,
              "where to buy " \o seed_keyword,
              "which " \o seed_keyword \o " is best",
              "why buy " \o seed_keyword,
              "when to use " \o seed_keyword>>
        comparison_patterns ==
            <<seed_keyword \o " vs",
              seed_keyword \o " comparison",
              seed_keyword \o " alternative",
              seed_keyword \o " substitute",
              "better than " \o seed_keyword,
              seed_keyword \o " or">>
    IN  s1 \o s2 \o s3 \o s4 \o commercial_patterns \o question_patterns
           \o comparison_patterns

\* the list unique_variations before random.shuffle.  The loop keeps
\* variation i iff it passes the tests on its own text and no earlier
\* variation has the same stripped text (an earlier one with the same text
\* passed the same tests and is in unique_variations).
expansion_unique(seed_keyword, existing_suggestions) ==
    LET existing_lower == LowerAll(existing_suggestions)
        variations == expansion_variations(seed_keyword, existing_lower)
        cleaned == <<>> \o [i \in 1..Len(variations) |-> <<i, PyStrip(variations[i])>>]
        Keep(p) ==
            /\ ~InList(PyLower(p[2]), existing_lower)
            /\ \A j \in 1..(p[1] - 1) : cleaned[j][2] # p[2]
            /\ Len(p[2]) > 2
        kept == SelectSeq(cleaned, Keep)
    IN  [k \in 1..Len(kept) |-> kept[k][2]]

\* random.shuffle yields some permutation of the list.  The model draws the
\* permutation from the rotations by `rot` places, optionally reversed.
Shuffled(list, rot, rev) ==
    LET n == Len(list)
        rotated == [k \in 1..n |-> list[((k - 1 + rot) % n) + 1]]
    IN  IF n = 0 THEN list
        ELSE IF rev THEN [k \in 1..n |-> rotated[n + 1 - k]]
        ELSE rotated

_generate_expanded_suggestions(seed_keyword, count, existing_suggestions, rot, rev) ==
    PyPrefix(Shuffled(expansion_unique(seed_keyword, existing_suggestions), rot, rev), count)

\* The loop over data['suggestions'] (lines 107-117)
autocomplete_values(vals) ==
    LET F[i \in 0..Len(vals)] ==
            IF i = 0 THEN <<>>
            ELSE LET keyword == PyStrip(vals[i])
                     suggestions == F[i - 1]
                 IN  IF keyword # "" /\ ~InList(keyword, suggestions)
                     THEN Append(suggestions, keyword)
                     ELSE suggestions
    IN  F[Len(vals)]

\* variant without the try/except: a failed fetch leaves the method as an
\* exception
autocomplete_unguarded(response) ==
    IF response.kind = "json"
    THEN [raised |-> FALSE, value |-> autocomplete_values(response.values)]
    ELSE [raised |-> TRUE, value |-> <<>>]

\* The answer of the autocomplete endpoint, as aiohttp presents it:
\*   [kind |-> "timeout"]        asyncio.TimeoutError (ClientTimeout(total=10))
\*   [kind |-> "network"]        aiohttp.ClientError
\*   [kind |-> "status"]         a response whose status is not 200
\*   [kind |-> "malformed"]      response.json() raises json.JSONDecodeError
\*   [kind |-> "shape"]          JSON of another shape (a 'value' that is no str)
\*   [kind |-> "json", values |-> <<...>>]
\*                               status 200, {'suggestions': [{'value': v}, ...]}
\* Every failure is caught (lines 122-128) and the method returns [].
_get_amazon_autocomplete(response) ==
    IF response.kind = "json"
    THEN [raised |-> FALSE, value |-> autocomplete_values(response.values)]
    ELSE [raised |-> FALSE, value |-> <<>>]

\* variant that compares the stripped text without lowercasing it
dedupe_case_sensitive(suggestions) ==
    LET cleaned == <<>> \o [i \in 1..Len(suggestions) |->
                        <<i, PyStrip(suggestions[i])>>]
        Keep(p) ==
            /\ p[2] # ""
            /\ \A j \in 1..(p[1] - 1) : cleaned[j][2] # p[2]
            /\ Len(p[2]) > 2
        kept == SelectSeq(cleaned, Keep)
    IN  [k \in 1..Len(kept) |-> kept[k][2]]

\* Step 3 of get_keyword_suggestions: unique_suggestions.  The loop keeps
\* suggestion i iff its stripped lowercase text is longer than 2 and is not
\* in `seen`, that is, is not the text of an earlier suggestion (an earlier
\* one with the same text passed the same tests and was added to `seen`).
dedupe_suggestions(suggestions) ==
    LET cleaned == <<>> \o [i \in 1..Len(suggestions) |->
                        <<i, PyLower(PyStrip(suggestions[i]))>>]
        Keep(p) ==
            /\ p[2] # ""
            /\ \A j \in 1..(p[1] - 1) : cleaned[j][2] # p[2]
            /\ Len(p[2]) > 2
        kept == SelectSeq(cleaned, Keep)
    IN  [k \in 1..Len(kept) |-> PyStrip(suggestions[kept[k][1]])]

\* get_keyword_suggestions after the await of _get_amazon_autocomplete
\* returned amazon_suggestions
get_keyword_suggestions(seed_keyword, limit, amazon_suggestions, rot, rev) ==
    LET expanded_suggestions ==
            IF limit > Len(amazon_suggestions)
            THEN _generate_expanded_suggestions(seed_keyword,
                    limit - Len(amazon_suggestions), amazon_suggestions, rot, rev)
            ELSE <<>>
        suggestions == amazon_suggestions \o expanded_suggestions
    IN  PyPrefix(dedupe_suggestions(suggestions), limit)

\* ------------------------------------------------------------------------
\* AmazonIndiaScraper : one keyword's record
\* ------------------------------------------------------------------------
\* An element of a keyword list that is not a str (the int 7, say): every
\* str method called on it raises AttributeError.
NonStr == "<not a str>"
IsStr(keyword) == keyword # NonStr

_calculate_intent_score(keyword) ==
    LET keyword_lower == PyLower(keyword)
        high_intent == <<"buy", "purchase", "order", "booking", "shop", "get">>
        price_words == <<"price", "cost", "cheap", "deal", "offer", "discount", "sale", "rate">>
        research_words == <<"best", "top", "review", "compare", "vs", "good", "quality", "rating">>
        brand_words == <<"original", "genuine", "authentic", "brand", "official", "authorized">>
        location_words == <<"india", "delhi", "mumbai", "bangalore", "online", "delivery">>
        platform_words == <<"amazon", "flipkart", "myntra", "snapdeal">>
        word_count == WordCount(keyword)
        score == 5
            + (IF AnyIn(high_intent, keyword_lower) THEN 3
               ELSE IF AnyIn(price_words, keyword_lower) THEN 2
               ELSE IF AnyIn(research_words, keyword_lower) THEN 1
               ELSE 0)
            + (IF AnyIn(brand_words, keyword_lower) THEN 1 ELSE 0)
            + (IF word_count >= 4 THEN 1 ELSE IF word_count >= 6 THEN 2 ELSE 0)
            + (IF AnyIn(location_words, keyword_lower) THEN 1 ELSE 0)
            + (IF AnyIn(platform_words, keyword_lower) THEN 2 ELSE 0)
    IN  Min(10, Max(1, score))

\* The fields of a record that depend on nothing but the keyword and on
\* which of the two constructors built it.  The bulk-analysis state machine
\* keeps these of each record; the metric fields are added by
\* enhanced_record and basic_record.
enhanced_head(keyword) ==
    [keyword     |-> keyword,
     currency    |-> "INR",
     market      |-> "India",
     data_source |-> "Enhanced AI + Amazon Data"]

\* variant of basic_head that carries the data_source of the enhanced record
basic_head_mislabelled(keyword) ==
    [keyword     |-> keyword,
     currency    |-> "INR",
     market      |-> "India",
     data_source |-> "Enhanced AI + Amazon Data"]

basic_head(keyword) ==
    [keyword     |-> keyword,
     currency    |-> "INR",
     market      |-> "India",
     data_source |-> "Fallback Algorithm"]

\* The dict of get_enhanced_keyword_data's try branch.  In these records
\* competition_score is in 1/200 and seasonal_factor in 1/100, the scales
\* common to both constructors.
enhanced_record(keyword, ai_data) ==
    enhanced_head(keyword) @@
    [search_volume         |-> ai_data.search_volume,
     competition           |-> ai_data.competition_data.competition_level,
     competition_score     |-> 5 * ai_data.competition_data.competition_score,
     organic_competitors   |-> ai_data.competition_data.organic_competitors,
     sponsored_competitors |-> ai_data.competition_data.sponsored_competitors,
     estimated_cpc_inr     |-> ai_data.estimated_cpc,
     suggested_bids        |-> ai_data.suggested_bids,
     magnet_iq_score       |-> ai_data.magnet_iq_score,
     intent_score          |-> _calculate_intent_score(keyword),
     trend_percentage      |-> ai_data.trend_data.trend_percentage,
     trend_direction       |-> ai_data.trend_data.trend_direction,
     seasonal_factor       |-> 4 * ai_data.trend_data.seasonal_factor,
     aba_click_share       |-> ai_data.aba_data.click_share,
     aba_conversion_share  |-> ai_data.aba_data.conversion_share,
     sponsored_rank        |-> ai_data.aba_data.sponsored_rank,
     category              |-> ai_data.category,
     confidence            |-> ai_data.confidence,
     reasoning             |-> ai_data.reasoning]

\* _get_basic_keyword_data for a str keyword
basic_record(keyword, seed) ==
    LET keyword_hash == Abs(PyHash(seed, keyword))
    IN  basic_head(keyword) @@
        [search_volume         |-> (keyword_hash % 8000) + 2000,
         competition           |-> <<"low", "medium", "high">>[(keyword_hash % 3) + 1],
         competition_score     |-> 2 * (keyword_hash % 100),
         organic_competitors   |-> (keyword_hash % 40) + 10,
         sponsored_competitors |-> (keyword_hash % 20) + 5,
         estimated_cpc_inr     |-> 100 * (8 + (keyword_hash % 15)),
         suggested_bids        |->
            [conservative |-> 800 + (keyword_hash % 15) * 80,
             optimal      |-> 800 + (keyword_hash % 15) * 110,
             aggressive   |-> 800 + (keyword_hash % 15) * 140],
         magnet_iq_score       |-> (keyword_hash % 80) + 20,
         intent_score          |-> _calculate_intent_score(keyword),
         trend_percentage      |-> (keyword_hash % 40) - 20,
         trend_direction       |-> <<"up", "stable", "down">>[(keyword_hash % 3) + 1],
         seasonal_factor       |-> 80 + (keyword_hash % 40),
         aba_click_share       |-> keyword_hash % 500,
         aba_conversion_share  |-> keyword_hash % 400,
         sponsored_rank        |-> (keyword_hash % 40) + 1,
         category              |-> "default",
         confidence            |-> 50 + (keyword_hash % 30),
         reasoning             |-> "Fallback estimation - API unavailable"]

\* How one call of get_enhanced_keyword_data ends.  score_raises says that
\* predict_optimal_bid_enhanced raised an Exception in this call; for an
\* element that is not a str it always does (keyword.lower()), and then
\* _get_basic_keyword_data raises as well (in _calculate_intent_score), so
\* the exception leaves the method.
\*   "scored"   the try branch returned the enhanced record
\*   "fallback" the except branch returned _get_basic_keyword_data(keyword)
\*   "raised"   the except branch raised
enhanced_outcome(keyword, score_raises) ==
    IF IsStr(keyword) /\ ~score_raises THEN "scored"
    ELSE IF IsStr(keyword) THEN "fallback"
    ELSE "raised"

\* get_enhanced_keyword_data, the head of the record it returns
get_enhanced_keyword_data(keyword, score_raises) ==
    LET outcome == enhanced_outcome(keyword, score_raises)
    IN  IF outcome = "scored"
        THEN [raised |-> FALSE, value |-> enhanced_head(keyword)]
        ELSE IF outcome = "fallback"
        THEN [raised |-> FALSE, value |-> basic_head(keyword)]
        ELSE [raised |-> TRUE, value |-> [exception |-> "AttributeError"]]

\* ------------------------------------------------------------------------
\* AmazonIndiaScraper.get_bulk_keyword_analysis
\* ------------------------------------------------------------------------
\* isinstance(result, Exception)
IsException(result) == "exception" \in DOMAIN result

\* variant of the loop that drops the failed items
assemble_dropping(keywords, results) ==
    [raised |-> FALSE,
     value  |-> SelectSeq(results, LAMBDA r : ~IsException(r))]

\* The loop over the gathered results (lines 356-365).  For a failed item
\* it calls _get_basic_keyword_data(keywords[i]), which raises when the
\* element is not a str; the exception then leaves the method.
assemble_results(keywords, results) ==
    IF \E i \in 1..Len(results) : IsException(results[i]) /\ ~IsStr(keywords[i])
    THEN [raised |-> TRUE, value |-> <<>>]
    ELSE [raised |-> FALSE,
          value  |-> [i \in 1..Len(results) |->
                        IF IsException(results[i])
                        THEN basic_head(keywords[i])
                        ELSE results[i]]]

VARIABLES
    bulk_keywords,   \* per call: the argument `keywords`
    bulk_pc,         \* per call: "called", "gather", "returned", "raised"
    semaphore,       \* per call: the value of its asyncio.Semaphore
    task_pc,         \* per call, per index: "pending", "running", "done"
    task_result,     \* per call, per index: what analyze_with_semaphore gave
    task_failed,     \* per call, per index: predict_optimal_bid_enhanced raised
    bulk_output,     \* per call: the list returned
    month,           \* datetime.now().month
    hashseed,        \* the hash seed of the process of the first scoring call
    fround,          \* direction of decimal rounding ties: "up" or "down"
    score_keyword,   \* the keyword scored
    score_results,   \* the records of the calls of predict_optimal_bid_enhanced
    seed_keyword,    \* get_keyword_suggestions: its arguments,
    limit,
    response,        \*   the answer of the autocomplete endpoint,
    amazon_suggestions,
    sug_pc,          \*   "called", "fetched", "returned", "raised"
    sug_result,      \*   and the list returned
    comp_pc,         \* get_competitor_analysis: "called", "analysed", "returned"
    comp_bulk_calls, \*   its calls of get_bulk_keyword_analysis so far
    comp_data,       \*   competitor_data
    comp_report,     \*   and the dict returned
    rec_results,     \* the records of the calls of get_enhanced_keyword_data
    cat_result,      \* what categorize_keyword returned
    fn_args,         \* the arguments of a call of one scoring helper
    fn_result,       \*   and what it returned
    h10_headless,    \* routers/keywords.py: settings.HELIUM10_HEADLESS,
    h10_clients,     \*   the Helium10Client objects created so far,
    h10_instance,    \*   _client_instance (0 is None),
    h10_lock,        \*   the request that holds _client_lock (0: free),
    h10_req          \*   and each scrape_keywords request

bulk_vars == <<bulk_keywords, bulk_pc, semaphore, task_pc, task_result,
               task_failed, bulk_output>>
score_vars == <<month, hashseed, fround, score_keyword, score_results>>
sug_vars == <<seed_keyword, limit, response, amazon_suggestions, sug_pc, sug_result>>
comp_vars == <<comp_pc, comp_bulk_calls, comp_data, comp_report>>
rec_vars == <<rec_results>>
cat_vars == <<cat_result>>
fn_vars == <<fn_args, fn_result>>
h10_vars == <<h10_headless, h10_clients, h10_instance, h10_lock, h10_req>>
vars == <<bulk_vars, score_vars, sug_vars, comp_vars, rec_vars, cat_vars, fn_vars,
          h10_vars>>

Calls == DOMAIN bulk_keywords
Tasks(c) == 1..Len(bulk_keywords[c])
NoResult == [pending |-> TRUE]

\* variant without the gate: acquire never waits
CanAcquireAlways(value) == TRUE

\* asyncio.Semaphore.acquire returns without waiting iff the value is positive
CanAcquire(value) == value > 0

\* variant of leaving `async with semaphore` that keeps the slot when the
\* scoring call raised
release_unless_raised(value, raised) == IF raised THEN value ELSE value + 1

\* asyncio.Semaphore.release, run on leaving `async with semaphore` whether
\* the body returned or raised
release(value, raised) == value + 1

\* entry of get_bulk_keyword_analysis up to `await asyncio.gather(*tasks)`
BulkEnter(c) ==
    /\ bulk_pc[c] = "called"
    /\ IF Len(bulk_keywords[c]) = 0
       THEN /\ bulk_pc' = [bulk_pc EXCEPT ![c] = "returned"]
            /\ bulk_output' = [bulk_output EXCEPT ![c] = <<>>]
            /\ UNCHANGED semaphore
       ELSE /\ bulk_pc' = [bulk_pc EXCEPT ![c] = "gather"]
            /\ semaphore' = [semaphore EXCEPT ![c] = 5]
            /\ UNCHANGED bulk_output
    /\ UNCHANGED <<bulk_keywords, task_pc, task_result, task_failed>>
    /\ UNCHANGED <<score_vars, sug_vars, comp_vars, rec_vars, cat_vars, fn_vars, h10_vars>>

\* analyze_with_semaphore: `async with semaphore` is entered
TaskAcquire(c, i) ==
    /\ bulk_pc[c] = "gather"
    /\ task_pc[c][i] = "pending"
    /\ CanAcquire(semaphore[c])
    /\ semaphore' = [semaphore EXCEPT ![c] = @ - 1]
    /\ task_pc' = [task_pc EXCEPT ![c][i] = "running"]
    /\ UNCHANGED <<bulk_keywords, bulk_pc, task_result, task_failed, bulk_output>>
    /\ UNCHANGED <<score_vars, sug_vars, comp_vars, rec_vars, cat_vars, fn_vars, h10_vars>>

\* analyze_with_semaphore: get_enhanced_keyword_data ends (it returns or
\* raises) and `async with` releases the semaphore either way
TaskFinish(c, i) ==
    /\ bulk_pc[c] = "gather"
    /\ task_pc[c][i] = "running"
    /\ \E score_raises \in BOOLEAN :
        LET keyword == bulk_keywords[c][i]
            r == get_enhanced_keyword_data(keyword, score_raises)
        IN  /\ task_result' = [task_result EXCEPT ![c][i] = r.value]
            /\ task_failed' = [task_failed EXCEPT ![c][i] =
                                    enhanced_outcome(keyword, score_raises) # "scored"]
            /\ semaphore' = [semaphore EXCEPT ![c] =
                    release(@, enhanced_outcome(keyword, score_raises) # "scored")]
    /\ task_pc' = [task_pc EXCEPT ![c][i] = "done"]
    /\ UNCHANGED <<bulk_keywords, bulk_pc, bulk_output>>
    /\ UNCHANGED <<score_vars, sug_vars, comp_vars, rec_vars, cat_vars, fn_vars, h10_vars>>

\* asyncio.gather(*tasks, return_exceptions=True) completes, with the
\* results in the order of the tasks, and the loop builds the list returned
BulkCollect(c) ==
    /\ bulk_pc[c] = "gather"
    /\ \A i \in Tasks(c) : task_pc[c][i] = "done"
    /\ LET results == task_result[c]
           r == assemble_results(bulk_keywords[c], results)
       IN  IF r.raised
           THEN /\ bulk_pc' = [bulk_pc EXCEPT ![c] = "raised"]
                /\ UNCHANGED bulk_output
           ELSE /\ bulk_pc' = [bulk_pc EXCEPT ![c] = "returned"]
                /\ bulk_output' = [bulk_output EXCEPT ![c] = r.value]
    /\ UNCHANGED <<bulk_keywords, semaphore, task_pc, task_result, task_failed>>
    /\ UNCHANGED <<score_vars, sug_vars, comp_vars, rec_vars, cat_vars, fn_vars, h10_vars>>

\* ---- inputs of the bulk analysis
BulkPool == <<NonStr, "", "phone", "laptop", "yoga mat", "book", "buy shoes", "tv">>

\* the keyword lists of a single call: the runs of BulkPool of up to
\* MaxBatch elements, and the list ["phone", "", "laptop"]
BulkInputs ==
    {SubSeq(BulkPool, w[1], w[1] + w[2] - 1) :
        w \in {v \in (1..Len(BulkPool)) \X (0..MaxBatch) :
                    v[1] + v[2] - 1 <= Len(BulkPool)}}
    \cup {<<"phone", "", "laptop">>}

\* the keyword lists of each of two concurrent calls
SharedInputs == {SubSeq(BulkPool, 2, 1 + n) : n \in 0..Min(MaxShared, Len(BulkPool) - 1)}

BulkStart(lists) ==
    /\ bulk_keywords = lists
    /\ bulk_pc = [c \in DOMAIN lists |-> "called"]
    /\ semaphore = [c \in DOMAIN lists |-> 0]
    /\ task_pc = [c \in DOMAIN lists |-> [i \in 1..Len(lists[c]) |-> "pending"]]
    /\ task_result = [c \in DOMAIN lists |-> [i \in 1..Len(lists[c]) |-> NoResult]]
    /\ task_failed = [c \in DOMAIN lists |-> [i \in 1..Len(lists[c]) |-> FALSE]]
    /\ bulk_output = [c \in DOMAIN lists |-> <<>>]

BulkIdle == BulkStart(<<>>)

ScoreIdle ==
    /\ month = 1
    /\ hashseed = 0
    /\ fround = "down"
    /\ score_keyword = ""
    /\ score_results = <<>>

SuggestIdle ==
    /\ seed_keyword = ""
    /\ limit = 1
    /\ response = [kind |-> "none"]
    /\ amazon_suggestions = <<>>
    /\ sug_pc = "idle"
    /\ sug_result = <<>>

NoReport == [pending |-> TRUE]

CompIdle ==
    /\ comp_pc = "idle"
    /\ comp_bulk_calls = 0
    /\ comp_data = <<>>
    /\ comp_report = NoReport

RecIdle == rec_results = <<>>

CatIdle == cat_result = "<none>"

NoCall == [pending |-> TRUE]
FnIdle ==
    /\ fn_args = NoCall
    /\ fn_result = NoCall

H10Idle ==
    /\ h10_headless = TRUE
    /\ h10_clients = <<>>
    /\ h10_instance = 0
    /\ h10_lock = 0
    /\ h10_req = <<>>

BulkNext ==
    \E c \in Calls :
        \/ BulkEnter(c)
        \/ \E i \in Tasks(c) : TaskAcquire(c, i)
        \/ \E i \in Tasks(c) : TaskFinish(c, i)
        \/ BulkCollect(c)

\* one call of get_bulk_keyword_analysis
Init ==
    /\ \E kws \in BulkInputs : BulkStart(<<kws>>)
    /\ ScoreIdle
    /\ SuggestIdle
    /\ CompIdle
    /\ RecIdle
    /\ CatIdle
    /\ FnIdle
    /\ H10Idle
Spec == Init /\ [][BulkNext]_vars

\* one call under the asyncio event loop, which keeps running a coroutine
\* that is ready: the call itself, a task whose acquire can return, a task
\* whose get_enhanced_keyword_data (no network wait) ends, the gather
SpecFair == Init /\ [][BulkNext]_vars /\ WF_vars(BulkNext)

\* two calls of get_bulk_keyword_analysis in flight together (two requests)
InitShared ==
    /\ \E k1 \in SharedInputs, k2 \in SharedInputs : BulkStart(<<k1, k2>>)
    /\ ScoreIdle
    /\ SuggestIdle
    /\ CompIdle
    /\ RecIdle
    /\ CatIdle
    /\ FnIdle
    /\ H10Idle
SpecShared == InitShared /\ [][BulkNext]_vars

\* ------------------------------------------------------------------------
\* Calls of predict_optimal_bid_enhanced on one keyword
\* ------------------------------------------------------------------------
ScoreKeywords ==
    {"wireless bluetooth headphones", "buy laptop online india", "laptop",
     "yoga mat", "Best Original Saree",
     "original novel about a long road trip in india",
     "kitchen", "vitamin c supplement", "face cream", "gym", "",
     "buy shoes", "yoga mat for women with carry strap",
     "yoga mat for women with carry strap blue"}

\* aba_data: click_share = round(random.uniform(0.1, 5.0), 2) and
\* conversion_share = round(random.uniform(0.05, 3.0), 2), in 1/100;
\* sponsored_rank = random.randint(1, 50).  The model draws the lowest and
\* the highest values.
AbaDraws ==
    {[click_share |-> 10,  conversion_share |-> 5,   sponsored_rank |-> 1],
     [click_share |-> 500, conversion_share |-> 300, sponsored_rank |-> 50]}

HashSeeds == 0..MaxSeed

\* the first call
Predict ==
    /\ Len(score_results) = 0
    /\ \E aba \in AbaDraws :
        score_results' = <<predict_call(score_keyword, month, hashseed, fround, aba)>>
    /\ UNCHANGED <<month, hashseed, fround, score_keyword>>
    /\ UNCHANGED <<bulk_vars, sug_vars, comp_vars, rec_vars, cat_vars, fn_vars, h10_vars>>

\* a second call with the same keyword in the same process
PredictAgain ==
    /\ Len(score_results) = 1
    /\ \E aba \in AbaDraws :
        score_results' = Append(score_results,
            predict_call(score_keyword, month, hashseed, fround, aba))
    /\ UNCHANGED <<month, hashseed, fround, score_keyword>>
    /\ UNCHANGED <<bulk_vars, sug_vars, comp_vars, rec_vars, cat_vars, fn_vars, h10_vars>>

\* a second call with the same keyword in a fresh process, whose hash seed
\* is drawn anew
PredictFresh ==
    /\ Len(score_results) = 1
    /\ \E seed \in HashSeeds, aba \in AbaDraws :
        score_results' = Append(score_results,
            predict_call(score_keyword, month, seed, fround, aba))
    /\ UNCHANGED <<month, hashseed, fround, score_keyword>>
    /\ UNCHANGED <<bulk_vars, sug_vars, comp_vars, rec_vars, cat_vars, fn_vars, h10_vars>>

ScoreNext == Predict \/ PredictAgain \/ PredictFresh

InitScore ==
    /\ month \in 1..12
    /\ hashseed \in HashSeeds
    /\ fround \in {"up", "down"}
    /\ score_keyword \in ScoreKeywords
    /\ score_results = <<>>
    /\ BulkIdle
    /\ SuggestIdle
    /\ CompIdle
    /\ RecIdle
    /\ CatIdle
    /\ FnIdle
    /\ H10Idle
SpecScore == InitScore /\ [][ScoreNext]_vars

\* ------------------------------------------------------------------------
\* A call of get_keyword_suggestions
\* ------------------------------------------------------------------------
SeedKeywords == {"yoga mat", "", "TV"}

ResponseFailures ==
    {[kind |-> "timeout"], [kind |-> "network"], [kind |-> "status"],
     [kind |-> "malformed"], [kind |-> "shape"]}

ResponseValues ==
    {<<>>,
     <<"Yoga Mat", "yoga mat", "ab", " yoga mat bag ", "best yoga mat", "">>,
     <<"tv", "TV online", "tv online">>,
     <<"tv">>}

Responses ==
    ResponseFailures \cup {[kind |-> "json", values |-> v] : v \in ResponseValues}

\* get_keyword_suggestions up to the return of
\* `await self._get_amazon_autocomplete(seed_keyword)`
SuggestFetch ==
    /\ sug_pc = "called"
    /\ \E resp \in Responses :
        LET r == _get_amazon_autocomplete(resp)
        IN  /\ response' = resp
            /\ IF r.raised
               THEN /\ sug_pc' = "raised"
                    /\ UNCHANGED amazon_suggestions
               ELSE /\ sug_pc' = "fetched"
                    /\ amazon_suggestions' = r.value
    /\ UNCHANGED <<seed_keyword, limit, sug_result>>
    /\ UNCHANGED <<bulk_vars, score_vars, comp_vars, rec_vars, cat_vars, fn_vars, h10_vars>>

\* the rest of get_keyword_suggestions: steps 2 and 3 and the return
SuggestReturn ==
    /\ sug_pc = "fetched"
    /\ \E rot \in 0..MaxShuffle, rev \in BOOLEAN :
        sug_result' = get_keyword_suggestions(seed_keyword, limit,
                                              amazon_suggestions, rot, rev)
    /\ sug_pc' = "returned"
    /\ UNCHANGED <<seed_keyword, limit, response, amazon_suggestions>>
    /\ UNCHANGED <<bulk_vars, score_vars, comp_vars, rec_vars, cat_vars, fn_vars, h10_vars>>

SuggestNext == SuggestFetch \/ SuggestReturn

InitSuggest ==
    /\ seed_keyword \in SeedKeywords
    /\ limit \in (-1)..MaxLimit
    /\ response = [kind |-> "none"]
    /\ amazon_suggestions = <<>>
    /\ sug_pc = "called"
    /\ sug_result = <<>>
    /\ BulkIdle
    /\ ScoreIdle
    /\ CompIdle
    /\ RecIdle
    /\ CatIdle
    /\ FnIdle
    /\ H10Idle
SpecSuggest == InitSuggest /\ [][SuggestNext]_vars

\* ------------------------------------------------------------------------
\* AmazonIndiaScraper.get_competitor_analysis
\* ------------------------------------------------------------------------
\* How one call of get_enhanced_keyword_data on a str keyword goes: scoring
\* raises and the fallback record is returned, or scoring returns with the
\* aba_data it drew (here the lowest values).
RecordDraws ==
    {[fails |-> TRUE],
     [fails |-> FALSE,
      aba_data |-> [click_share |-> 10, conversion_share |-> 5, sponsored_rank |-> 1]]}

\* get_enhanced_keyword_data on a str keyword, the whole record
get_enhanced_keyword_record(keyword, draw, mon, seed, tie) ==
    IF draw.fails
    THEN basic_record(keyword, seed)
    ELSE enhanced_record(keyword,
            predict_optimal_bid_enhanced(keyword, mon, seed, tie, draw.aba_data))

\* get_bulk_keyword_analysis on a list of str keywords, the whole records:
\* one record per keyword, in the order of the keywords
bulk_keyword_records(keywords, draws, mon, seed, tie) ==
    <<>> \o [i \in 1..Len(keywords) |->
                get_enhanced_keyword_record(keywords[i], draws[i], mon, seed, tie)]

\* variant in which the test never succeeds
related_is_empty_never(related_keywords) == FALSE

\* `if not related_keywords`
related_is_empty(related_keywords) == Len(related_keywords) = 0

\* one step of an insertion sort by magnet_iq_score, descending: x goes
\* behind every element whose key is not smaller
insert_by_magnet(sorted, x) ==
    LET n == Cardinality({k \in 1..Len(sorted) :
                            sorted[k].magnet_iq_score >= x.magnet_iq_score})
    IN  SubSeq(sorted, 1, n) \o <<x>> \o SubSeq(sorted, n + 1, Len(sorted))

\* variant: sort ascending, then reverse the list (equal keys end up in
\* reverse order)
sort_reversed_ascending(competitor_data) ==
    LET insert_asc(sorted, x) ==
            LET n == Cardinality({k \in 1..Len(sorted) :
                                    sorted[k].magnet_iq_score <= x.magnet_iq_score})
            IN  SubSeq(sorted, 1, n) \o <<x>> \o SubSeq(sorted, n + 1, Len(sorted))
        F[i \in 0..Len(competitor_data)] ==
            IF i = 0 THEN <<>> ELSE insert_asc(F[i - 1], competitor_data[i])
        asc == F[Len(competitor_data)]
    IN  [k \in 1..Len(asc) |-> asc[Len(asc) + 1 - k]]

\* competitor_data.sort(key=lambda x: x.get('magnet_iq_score', 0), reverse=True)
\* list.sort is stable, also with reverse=True
sort_by_magnet_iq(competitor_data) ==
    LET F[i \in 0..Len(competitor_data)] ==
            IF i = 0 THEN <<>> ELSE insert_by_magnet(F[i - 1], competitor_data[i])
    IN  F[Len(competitor_data)]

\* sum(numbers), numbers a list of integers
SumOf(numbers) ==
    LET F[i \in 0..Len(numbers)] == IF i = 0 THEN 0 ELSE F[i - 1] + numbers[i]
    IN  F[Len(numbers)]

\* [item[field] for item in list]
FieldOf(list, field) == [k \in 1..Len(list) |-> list[k][field]]

\* variant that takes the last element as top_opportunity and counts
\* search_volume >= 5000
analysis_summary_skewed(competitor_data, tie) ==
    LET n == Len(competitor_data)
        Idx == 1..n
        opportunities == {k \in Idx : /\ competitor_data[k].magnet_iq_score > 70
                                       /\ competitor_data[k].competition_score < 120}
    IN  [total_search_volume      |-> SumOf(FieldOf(competitor_data, "search_volume")),
         average_cpc              |-> RoundDiv(SumOf(FieldOf(competitor_data, "estimated_cpc_inr")), n, tie),
         average_magnet_iq        |-> RoundDiv(10 * SumOf(FieldOf(competitor_data, "magnet_iq_score")), n, tie),
         average_competition      |-> RoundDiv(SumOf(FieldOf(competitor_data, "competition_score")), 2 * n, tie),
         top_opportunity          |-> competitor_data[n],
         high_opportunity_count   |-> Cardinality(opportunities),
         low_competition_keywords |-> Cardinality({k \in Idx : competitor_data[k].competition = "low"}),
         high_volume_keywords     |-> Cardinality({k \in Idx : competitor_data[k].search_volume >= 5000})]

\* analysis_summary (lines 389-421).  average_cpc and average_competition
\* in 1/100, average_magnet_iq in 1/10; competition_score < 0.6 is < 120
\* in 1/200.
analysis_summary_of(competitor_data, tie) ==
    LET n == Len(competitor_data)
        Idx == 1..n
        opportunities == {k \in Idx : /\ competitor_data[k].magnet_iq_score > 70
                                       /\ competitor_data[k].competition_score < 120}
    IN  IF n > 0
        THEN [total_search_volume      |-> SumOf(FieldOf(competitor_data, "search_volume")),
              average_cpc              |-> RoundDiv(SumOf(FieldOf(competitor_data, "estimated_cpc_inr")), n, tie),
              average_magnet_iq        |-> RoundDiv(10 * SumOf(FieldOf(competitor_data, "magnet_iq_score")), n, tie),
              average_competition      |-> RoundDiv(SumOf(FieldOf(competitor_data, "competition_score")), 2 * n, tie),
              top_opportunity          |-> competitor_data[1],
              high_opportunity_count   |-> Cardinality(opportunities),
              low_competition_keywords |-> Cardinality({k \in Idx : competitor_data[k].competition = "low"}),
              high_volume_keywords     |-> Cardinality({k \in Idx : competitor_data[k].search_volume > 5000})]
        ELSE [total_search_volume      |-> 0,
              average_cpc              |-> 0,
              average_magnet_iq        |-> 0,
              average_competition      |-> 0,
              top_opportunity          |-> "None",
              high_opportunity_count   |-> 0,
              low_competition_keywords |-> 0,
              high_volume_keywords     |-> 0]

\* the dict returned when there are no related keywords (lines 374-380)
empty_report(primary_keyword) ==
    [primary_keyword     |-> primary_keyword,
     competitor_keywords |-> <<>>,
     total_found         |-> 0,
     analysis_summary    |-> "No competitor keywords found",
     market              |-> "India"]

\* the dict returned otherwise (lines 423-431), competitor_data sorted; its
\* 'timestamp', the clock of the event loop, is left out
full_report(primary_keyword, competitor_data, tie) ==
    [primary_keyword     |-> primary_keyword,
     competitor_keywords |-> competitor_data,
     total_found         |-> Len(competitor_data),
     analysis_summary    |-> analysis_summary_of(competitor_data, tie),
     market              |-> "India",
     currency            |-> "INR"]

\* the answers of the autocomplete endpoint drawn here: one failure (all
\* failures leave amazon_suggestions empty) and the JSON answers
CompResponses ==
    {[kind |-> "timeout"]} \cup {[kind |-> "json", values |-> v] : v \in ResponseValues}

\* get_competitor_analysis(primary_keyword = seed_keyword, limit): the
\* await of get_keyword_suggestions(primary_keyword, limit) returns
CompExpand ==
    /\ comp_pc = "called"
    /\ sug_pc = "called"
    /\ \E resp \in CompResponses, rot \in 0..MaxShuffle, rev \in BOOLEAN :
        LET r == _get_amazon_autocomplete(resp)
        IN  /\ response' = resp
            /\ amazon_suggestions' = r.value
            /\ sug_result' = get_keyword_suggestions(seed_keyword, limit,
                                                     r.value, rot, rev)
    /\ sug_pc' = "returned"
    /\ UNCHANGED <<seed_keyword, limit>>
    /\ UNCHANGED <<bulk_vars, score_vars, comp_vars, rec_vars, cat_vars, fn_vars, h10_vars>>

\* ... with no related keywords: the empty report is returned
CompEmpty ==
    /\ comp_pc = "called"
    /\ sug_pc = "returned"
    /\ related_is_empty(sug_result)
    /\ comp_report' = empty_report(seed_keyword)
    /\ comp_pc' = "returned"
    /\ UNCHANGED <<comp_bulk_calls, comp_data>>
    /\ UNCHANGED <<bulk_vars, score_vars, sug_vars, rec_vars, cat_vars, fn_vars, h10_vars>>

\* ... with related keywords: get_bulk_keyword_analysis is awaited,
\* its list is sorted and summarised, and the report is returned
CompAnalyze ==
    /\ comp_pc = "called"
    /\ sug_pc = "returned"
    /\ ~related_is_empty(sug_result)
    /\ \E draws \in [1..Len(sug_result) -> RecordDraws] :
        LET competitor_data ==
                bulk_keyword_records(sug_result, draws, month, hashseed, fround)
        IN  /\ comp_data' = competitor_data
            /\ comp_report' = full_report(seed_keyword,
                                  sort_by_magnet_iq(competitor_data), fround)
    /\ comp_bulk_calls' = comp_bulk_calls + 1
    /\ comp_pc' = "returned"
    /\ UNCHANGED <<bulk_vars, score_vars, sug_vars, rec_vars, cat_vars, fn_vars, h10_vars>>

CompNext == CompExpand \/ CompEmpty \/ CompAnalyze

CompPrimaries == {"yoga mat", "", "  "}
CompMonths == {10}
CompSeeds == {0, 1}

InitCompetitor ==
    /\ seed_keyword \in CompPrimaries
    /\ limit \in 0..MaxLimit
    /\ response = [kind |-> "none"]
    /\ amazon_suggestions = <<>>
    /\ sug_pc = "called"
    /\ sug_result = <<>>
    /\ month \in CompMonths
    /\ hashseed \in CompSeeds
    /\ fround \in {"up", "down"}
    /\ score_keyword = ""
    /\ score_results = <<>>
    /\ comp_pc = "called"
    /\ comp_bulk_calls = 0
    /\ comp_data = <<>>
    /\ comp_report = NoReport
    /\ BulkIdle
    /\ RecIdle
    /\ CatIdle
    /\ FnIdle
    /\ H10Idle
SpecCompetitor == InitCompetitor /\ [][CompNext]_vars

\* ------------------------------------------------------------------------
\* A call of categorize_keyword
\* ------------------------------------------------------------------------
CategorizeWords ==
    {"phone", "headphone", "camera", "Laptop", "shirt", "bag", "SHOES",
     "book", "Novel", "guide", "home", "decor", "kitchen", "vitamin",
     "health", "cream", "skin", "sports", "gym", "yoga", "wireless", "mat"}

\* two-word keywords over CategorizeWords, and the keyword of the scenario
CategorizeKeywords ==
    {a \o " " \o b : a, b \in CategorizeWords}
    \cup {"wireless bluetooth headphones"}

Categorize ==
    /\ cat_result = "<none>"
    /\ cat_result' = categorize_keyword(score_keyword)
    /\ UNCHANGED <<bulk_vars, score_vars, sug_vars, comp_vars, rec_vars, fn_vars, h10_vars>>

CategorizeNext == Categorize

InitCategorize ==
    /\ score_keyword \in CategorizeKeywords
    /\ month = 1
    /\ hashseed = 0
    /\ fround = "down"
    /\ score_results = <<>>
    /\ cat_result = "<none>"
    /\ BulkIdle
    /\ SuggestIdle
    /\ CompIdle
    /\ RecIdle
    /\ FnIdle
    /\ H10Idle
SpecCategorize == InitCategorize /\ [][CategorizeNext]_vars

\* ------------------------------------------------------------------------
\* Calls of get_enhanced_keyword_data on one keyword
\* ------------------------------------------------------------------------
\* the first call
EnhancedData ==
    /\ Len(rec_results) = 0
    /\ \E draw \in RecordDraws :
        rec_results' = <<get_enhanced_keyword_record(
                            score_keyword, draw, month, hashseed, fround)>>
    /\ UNCHANGED <<bulk_vars, score_vars, sug_vars, comp_vars, cat_vars, fn_vars, h10_vars>>

\* a second call with the same keyword in the same process
EnhancedDataAgain ==
    /\ Len(rec_results) = 1
    /\ \E draw \in RecordDraws :
        rec_results' = Append(rec_results,
            get_enhanced_keyword_record(score_keyword, draw, month, hashseed, fround))
    /\ UNCHANGED <<bulk_vars, score_vars, sug_vars, comp_vars, cat_vars, fn_vars, h10_vars>>

\* a second call with the same keyword in a fresh process, whose hash seed
\* is drawn anew
EnhancedDataFresh ==
    /\ Len(rec_results) = 1
    /\ \E draw \in RecordDraws, seed \in HashSeeds :
        rec_results' = Append(rec_results,
            get_enhanced_keyword_record(score_keyword, draw, month, seed, fround))
    /\ UNCHANGED <<bulk_vars, score_vars, sug_vars, comp_vars, cat_vars, fn_vars, h10_vars>>

RecordNext == EnhancedData \/ EnhancedDataAgain \/ EnhancedDataFresh

RecordMonths == {1, 10}

InitRecord ==
    /\ score_keyword \in ScoreKeywords \ {""}
    /\ month \in RecordMonths
    /\ hashseed \in HashSeeds
    /\ fround \in {"up", "down"}
    /\ score_results = <<>>
    /\ rec_results = <<>>
    /\ BulkIdle
    /\ SuggestIdle
    /\ CompIdle
    /\ CatIdle
    /\ FnIdle
    /\ H10Idle
SpecRecord == InitRecord /\ [][RecordNext]_vars

\* ------------------------------------------------------------------------
\* A call of calculate_magnet_iq_score
\* ------------------------------------------------------------------------
MagnetKeywords ==
    {"", "laptop", "yoga mat", "buy", "Best yoga mat",
     "yoga mat for women with carry strap blue"}
MagnetVolumes == {0, 499, 500, 2140, 5100, 19999, 20000, 60000}

\* competition_score in 1/40
MagnetCalls ==
    [keyword : MagnetKeywords, search_volume : MagnetVolumes, competition_score : 0..40]

MagnetScore ==
    /\ fn_args \in MagnetCalls
    /\ fn_result = NoCall
    /\ fn_result' = [value |-> calculate_magnet_iq_score(fn_args.keyword,
                                    fn_args.search_volume, fn_args.competition_score)]
    /\ UNCHANGED fn_args
    /\ UNCHANGED <<bulk_vars, score_vars, sug_vars, comp_vars, rec_vars, cat_vars,
                   h10_vars>>

MagnetNext == MagnetScore

InitMagnet ==
    /\ fn_args \in MagnetCalls
    /\ fn_result = NoCall
    /\ BulkIdle
    /\ ScoreIdle
    /\ SuggestIdle
    /\ CompIdle
    /\ RecIdle
    /\ CatIdle
    /\ H10Idle
SpecMagnet == InitMagnet /\ [][MagnetNext]_vars

\* ------------------------------------------------------------------------
\* routers/keywords.py : concurrent scrape_keywords requests and the shared
\* Helium10Client.  The requests run on one event loop, so a request runs
\* without interruption from one await that suspends to the next; each
\* action is such a stretch.  An uncontended asyncio.Lock is acquired
\* without suspending.
\* ------------------------------------------------------------------------
MaxRequests == 3
Requests == 1..MaxRequests

\* Helium10Client.__init__ followed by the start of initialize(): the
\* object has no context yet and holds its _init_lock while it launches.
\*   context   "none"     self.context is None
\*             "open"     self.context is a live browser context
\*             "closing"  self.context is set, context.close() is under way
\*   launching the client's _init_lock is held by an initialize() in flight
\*   leaked    live contexts this client launched and no longer refers to
Helium10Client(headless) ==
    [headless |-> headless, context |-> "none", launching |-> TRUE, leaked |-> 0]

\* whether launch_persistent_context returned (TRUE) or raised (FALSE)
LaunchOutcomes == BOOLEAN

\* scrape_magnet -> login_if_needed -> initialize() of client c, up to the
\* next await that suspends: with a context set initialize returns and the
\* page operations start; with none it launches, or waits for _init_lock
EnterScrape(r, c, clients) ==
    IF clients[c].context # "none"
    THEN [clients |-> clients, pc |-> "scraping", client |-> c]
    ELSE IF clients[c].launching
    THEN [clients |-> clients, pc |-> "init_wait", client |-> c]
    ELSE [clients |-> [clients EXCEPT ![c].launching = TRUE],
          pc |-> "relaunch", client |-> c]

\* scrape_keywords from the headful test (line 322) with client c, up to
\* the next await that suspends: `await client.close()` or scrape_magnet
AfterClient(r, c, clients) ==
    IF ~h10_req[r].headless /\ clients[c].headless
    THEN [clients |-> [clients EXCEPT ![c].context =
                            IF @ = "none" THEN "none" ELSE "closing"],
          pc |-> "closing", client |-> c]
    ELSE EnterScrape(r, c, clients)

\* get_client_once: the lock is taken; with no shared client one is created
\* and its initialize() awaited under the lock, else the shared one is
\* returned and scrape_keywords goes on
GetClient(r) ==
    /\ h10_req[r].pc = "start"
    /\ h10_lock = 0
    /\ IF h10_instance = 0
       THEN /\ h10_clients' = Append(h10_clients, Helium10Client(h10_headless))
            /\ h10_lock' = r
            /\ h10_req' = [h10_req EXCEPT ![r].pc = "init_shared",
                                          ![r].client = Len(h10_clients) + 1]
       ELSE LET next == AfterClient(r, h10_instance, h10_clients)
            IN  /\ h10_clients' = next.clients
                /\ h10_req' = [h10_req EXCEPT ![r].pc = next.pc,
                                              ![r].client = next.client]
                /\ UNCHANGED h10_lock
    /\ UNCHANGED <<h10_headless, h10_instance>>
    /\ UNCHANGED <<bulk_vars, score_vars, sug_vars, comp_vars, rec_vars, cat_vars, fn_vars>>

\* get_client_once: initialize() of the new shared client ends; the client
\* is published and the lock released, or the exception becomes HTTP 500
GetClientInitDone(r) ==
    /\ h10_req[r].pc = "init_shared"
    /\ \E launched \in LaunchOutcomes :
        LET c == h10_req[r].client
            clients == [h10_clients EXCEPT
                            ![c].launching = FALSE,
                            ![c].context = IF launched THEN "open" ELSE "none"]
            next == AfterClient(r, c, clients)
        IN  IF launched
            THEN /\ h10_instance' = c
                 /\ h10_clients' = next.clients
                 /\ h10_req' = [h10_req EXCEPT ![r].pc = next.pc]
            ELSE /\ h10_clients' = clients
                 /\ h10_req' = [h10_req EXCEPT ![r].pc = "failed", ![r].client = 0]
                 /\ UNCHANGED h10_instance
    /\ h10_lock' = 0
    /\ UNCHANGED h10_headless
    /\ UNCHANGED <<bulk_vars, score_vars, sug_vars, comp_vars, rec_vars, cat_vars, fn_vars>>

\* client.close() ends: self.context = None (a context launched meanwhile
\* is dropped without being closed); the headful client is created and its
\* initialize() awaited
CloseDone(r) ==
    /\ h10_req[r].pc = "closing"
    /\ LET c == h10_req[r].client
       IN  /\ h10_clients' = Append(
                    [h10_clients EXCEPT
                        ![c].context = "none",
                        ![c].leaked = IF h10_clients[c].context = "open"
                                      THEN @ + 1 ELSE @],
                    Helium10Client(FALSE))
           /\ h10_req' = [h10_req EXCEPT ![r].pc = "init_new",
                                         ![r].new_client = Len(h10_clients) + 1]
    /\ UNCHANGED <<h10_headless, h10_instance, h10_lock>>
    /\ UNCHANGED <<bulk_vars, score_vars, sug_vars, comp_vars, rec_vars, cat_vars, fn_vars>>

\* new_client.initialize() ends: under _client_lock the new client replaces
\* the shared one and scrape_magnet starts with it; if the launch raised,
\* the exception leaves scrape_keywords and _client_instance stays
NewClientInitDone(r) ==
    /\ h10_req[r].pc = "init_new"
    /\ h10_lock = 0
    /\ \E launched \in LaunchOutcomes :
        LET n == h10_req[r].new_client
            clients == [h10_clients EXCEPT
                            ![n].launching = FALSE,
                            ![n].context = IF launched THEN "open" ELSE "none"]
            next == EnterScrape(r, n, clients)
        IN  IF launched
            THEN /\ h10_instance' = n
                 /\ h10_clients' = next.clients
                 /\ h10_req' = [h10_req EXCEPT ![r].pc = next.pc, ![r].client = n]
            ELSE /\ h10_clients' = clients
                 /\ h10_req' = [h10_req EXCEPT ![r].pc = "failed"]
                 /\ UNCHANGED h10_instance
    /\ UNCHANGED <<h10_headless, h10_lock>>
    /\ UNCHANGED <<bulk_vars, score_vars, sug_vars, comp_vars, rec_vars, cat_vars, fn_vars>>

\* initialize() inside scrape_magnet: the launch of a client that had no
\* context ends
RelaunchDone(r) ==
    /\ h10_req[r].pc = "relaunch"
    /\ \E launched \in LaunchOutcomes :
        LET c == h10_req[r].client
        IN  /\ h10_clients' = [h10_clients EXCEPT
                                    ![c].launching = FALSE,
                                    ![c].context = IF launched THEN "open" ELSE @]
            /\ h10_req' = [h10_req EXCEPT ![r].pc =
                                IF launched THEN "scraping" ELSE "failed"]
    /\ UNCHANGED <<h10_headless, h10_instance, h10_lock>>
    /\ UNCHANGED <<bulk_vars, score_vars, sug_vars, comp_vars, rec_vars, cat_vars, fn_vars>>

\* initialize() inside scrape_magnet: the client's _init_lock is obtained
InitLockAcquired(r) ==
    /\ h10_req[r].pc = "init_wait"
    /\ ~h10_clients[h10_req[r].client].launching
    /\ LET next == EnterScrape(r, h10_req[r].client, h10_clients)
       IN  /\ h10_clients' = next.clients
           /\ h10_req' = [h10_req EXCEPT ![r].pc = next.pc]
    /\ UNCHANGED <<h10_headless, h10_instance, h10_lock>>
    /\ UNCHANGED <<bulk_vars, score_vars, sug_vars, comp_vars, rec_vars, cat_vars, fn_vars>>

\* scrape_magnet ends: it returns the rows if the client's context stayed
\* open, and the page operations raise (HTTP 500) if it was closed
ScrapeDone(r) ==
    /\ h10_req[r].pc = "scraping"
    /\ h10_req' = [h10_req EXCEPT ![r].pc =
                        IF h10_clients[h10_req[r].client].context = "open"
                        THEN "done" ELSE "failed"]
    /\ UNCHANGED <<h10_headless, h10_clients, h10_instance, h10_lock>>
    /\ UNCHANGED <<bulk_vars, score_vars, sug_vars, comp_vars, rec_vars, cat_vars, fn_vars>>

ScrapeNext ==
    \E r \in Requests :
        \/ GetClient(r)
        \/ GetClientInitDone(r)
        \/ CloseDone(r)
        \/ NewClientInitDone(r)
        \/ RelaunchDone(r)
        \/ InitLockAcquired(r)
        \/ ScrapeDone(r)

\* MaxRequests requests with a non-empty keyword, each with its headless
\* flag, arrive at a server that has no shared client yet
InitScrape ==
    /\ h10_headless \in BOOLEAN
    /\ h10_clients = <<>>
    /\ h10_instance = 0
    /\ h10_lock = 0
    /\ h10_req \in [Requests -> {[pc |-> "start", headless |-> h, client |-> 0,
                                  new_client |-> 0] : h \in BOOLEAN}]
    /\ BulkIdle
    /\ ScoreIdle
    /\ SuggestIdle
    /\ CompIdle
    /\ RecIdle
    /\ CatIdle
    /\ FnIdle
SpecScrape == InitScrape /\ [][ScrapeNext]_vars

\* ------------------------------------------------------------------------
\* One process scoring a list of keywords, one call of
\* predict_optimal_bid_enhanced after the other
\* ------------------------------------------------------------------------
\* keywords with the most favourable terms of the magnet score (one to
\* three words, an intent word, no brand word, each category's volume) and
\* some without
OpportunityList ==
    <<"laptop", "buy laptop", "best laptop deal", "top", "buy shoes",
      "best book", "cheap kitchen decor", "yoga mat">>

SessionPredict ==
    /\ Len(score_results) < Len(OpportunityList)
    /\ score_keyword' = OpportunityList[Len(score_results) + 1]
    /\ \E aba \in AbaDraws :
        score_results' = Append(score_results,
            predict_call(score_keyword', month, hashseed, fround, aba))
    /\ UNCHANGED <<month, hashseed, fround>>
    /\ UNCHANGED <<bulk_vars, sug_vars, comp_vars, rec_vars, cat_vars, fn_vars, h10_vars>>

SessionNext == SessionPredict

InitSession ==
    /\ month \in RecordMonths
    /\ hashseed \in HashSeeds
    /\ fround \in {"up", "down"}
    /\ score_keyword = ""
    /\ score_results = <<>>
    /\ BulkIdle
    /\ SuggestIdle
    /\ CompIdle
    /\ RecIdle
    /\ CatIdle
    /\ FnIdle
    /\ H10Idle
SpecSession == InitSession /\ [][SessionNext]_vars

\* ------------------------------------------------------------------------
\* Properties
\* ------------------------------------------------------------------------
InFlight(c) == Cardinality({i \in Tasks(c) : task_pc[c][i] = "running"})
Started(c) == {i \in Tasks(c) : task_pc[c][i] # "pending"}
AllStr(keywords) == \A i \in 1..Len(keywords) : IsStr(keywords[i])

\* C1: when get_bulk_keyword_analysis returns, the list has the length of
\* the input and the record at index i has keyword = keywords[i], whatever
\* order the scoring calls finished in and whichever of them failed; the
\* call raises only when an element of the input is not a str.
BulkOrderAndLength ==
    \A c \in Calls :
        /\ bulk_pc[c] = "returned" =>
              /\ Len(bulk_output[c]) = Len(bulk_keywords[c])
              /\ \A i \in 1..Len(bulk_output[c]) :
                    bulk_output[c][i].keyword = bulk_keywords[c][i]
        /\ bulk_pc[c] = "raised" => ~AllStr(bulk_keywords[c])

BulkOrderAndLengthWitness ==
    \E c \in Calls :
        /\ bulk_pc[c] = "returned"
        /\ Len(bulk_output[c]) >= 3
        /\ task_failed[c][1] /\ ~task_failed[c][2] /\ task_failed[c][3]

\* C2: within one call at most 5 scoring calls are in flight at any moment;
\* the gate counts, so 5 can be in flight together while another waits.
AtMostFiveInFlight == \A c \in Calls : InFlight(c) <= 5

FiveInFlightWitness ==
    \E c \in Calls :
        /\ InFlight(c) = 5
        /\ \E i \in Tasks(c) : task_pc[c][i] = "pending"

FailureIsolation ==
    \A c \in Calls :
        /\ AllStr(bulk_keywords[c]) => bulk_pc[c] # "raised"
        /\ bulk_pc[c] = "returned" =>
              \A i \in 1..Len(bulk_output[c]) :
                  /\ bulk_output[c][i].keyword = bulk_keywords[c][i]
                  /\ bulk_output[c][i].data_source =
                        IF task_failed[c][i] THEN "Fallback Algorithm"
                        ELSE "Enhanced AI + Amazon Data"

FailureIsolationWitness ==
    \E c \in Calls :
        /\ bulk_pc[c] = "returned"
        /\ \E i, j \in 1..Len(bulk_output[c]) :
              /\ task_failed[c][i]
              /\ bulk_output[c][i].data_source = "Fallback Algorithm"
              /\ ~task_failed[c][j]
              /\ bulk_output[c][j].data_source = "Enhanced AI + Amazon Data"

\* the precondition of analyze_many: 1 to 100 elements (BulkAnalysisRequest:
\* min_items=1, max_items=100), each a non-blank str
ValidBatch(keywords) ==
    /\ Len(keywords) >= 1
    /\ Len(keywords) <= 100
    /\ \A i \in 1..Len(keywords) :
          IsStr(keywords[i]) /\ PyStrip(keywords[i]) # ""

\* C5: for an input that is empty, longer than 100, or holds a blank or
\* non-str element, get_bulk_keyword_analysis starts no scoring call and
\* returns no list.
BulkPreconditionRejected ==
    \A c \in Calls :
        ~ValidBatch(bulk_keywords[c]) =>
            /\ Started(c) = {}
            /\ bulk_pc[c] # "returned"

\* C6: for a non-empty keyword the record of predict_optimal_bid_enhanced
\* has conservative <= optimal <= aggressive.
BidsOrdered ==
    \A k \in 1..Len(score_results) :
        PyStrip(score_results[k].keyword) # "" =>
            /\ score_results[k].suggested_bids.conservative
                  <= score_results[k].suggested_bids.optimal
            /\ score_results[k].suggested_bids.optimal
                  <= score_results[k].suggested_bids.aggressive

BidsOrderedWitness ==
    \E k \in 1..Len(score_results) :
        /\ PyStrip(score_results[k].keyword) # ""
        /\ score_results[k].suggested_bids.conservative
              < score_results[k].suggested_bids.optimal
        /\ score_results[k].suggested_bids.optimal
              < score_results[k].suggested_bids.aggressive

\* C7: for a non-empty keyword magnet_iq_score is an integer in 1..100 and
\* competition_score is in [0, 1] (0..40 in 1/40).
MagnetAndCompetitionInRange ==
    \A k \in 1..Len(score_results) :
        PyStrip(score_results[k].keyword) # "" =>
            /\ score_results[k].magnet_iq_score \in 1..100
            /\ score_results[k].competition_data.competition_score \in 0..40

\* a record whose score before clamping is below 1
MagnetClampedWitness ==
    \E k \in 1..Len(score_results) :
        /\ PyStrip(score_results[k].keyword) # ""
        /\ score_results[k].magnet_iq_score = 1
        /\ magnet_score_raw(score_results[k].keyword,
                            score_results[k].search_volume,
                            score_results[k].competition_data.competition_score) < 1

\* C8: two calls of predict_optimal_bid_enhanced with the same keyword, in
\* the same process or in a fresh one, return records equal in every field.
ScoringDeterministic ==
    (Len(score_results) = 2 /\ PyStrip(score_keyword) # "") =>
        score_results[1] = score_results[2]

\* C9: for limit >= 1, whatever the autocomplete endpoint answers,
\* get_keyword_suggestions returns at most limit items, no two equal after
\* stripping and lowercasing, none of stripped length <= 2.
SuggestionsBoundedUnique ==
    (sug_pc = "returned" /\ limit >= 1) =>
        /\ Len(sug_result) <= limit
        /\ \A i, j \in 1..Len(sug_result) :
              i # j => PyLower(PyStrip(sug_result[i])) # PyLower(PyStrip(sug_result[j]))
        /\ \A i \in 1..Len(sug_result) : Len(PyStrip(sug_result[i])) > 2

\* the endpoint answered with case variants and short entries, and the
\* list returned is shorter than what the endpoint gave
SuggestionsFilteredWitness ==
    /\ sug_pc = "returned"
    /\ limit >= 1
    /\ response.kind = "json"
    /\ \E i, j \in 1..Len(amazon_suggestions) :
          i # j /\ PyLower(amazon_suggestions[i]) = PyLower(amazon_suggestions[j])
    /\ \E i \in 1..Len(amazon_suggestions) : Len(amazon_suggestions[i]) <= 2
    /\ Len(sug_result) = limit

\* C10: a failed autocomplete fetch (timeout, network error, non-200
\* status, malformed payload) counts as no external suggestions:
\* get_keyword_suggestions never raises and returns rule-generated
\* candidates.
FetchFailureIsEmpty ==
    /\ sug_pc # "raised"
    /\ (response \in ResponseFailures /\ sug_pc \in {"fetched", "returned"}) =>
          amazon_suggestions = <<>>
    /\ (response \in ResponseFailures /\ sug_pc = "returned" /\ limit >= 1) =>
          /\ Len(sug_result) >= 1
          /\ LET generated == expansion_unique(seed_keyword, <<>>)
             IN  \A k \in 1..Len(sug_result) : InList(sug_result[k], generated)

FetchFailureWitness ==
    /\ response \in ResponseFailures
    /\ sug_pc = "returned"
    /\ limit >= 2
    /\ Len(sug_result) = limit
\* position of a keyword in the list the suggestion expander returned
ExpanderPos(keyword) == CHOOSE k \in 1..Len(sug_result) : sug_result[k] = keyword

\* C11: when get_keyword_suggestions returned no related keywords,
\* get_competitor_analysis returns a report with total_found = 0, an empty
\* competitor list and the summary 'No competitor keywords found', and it
\* has not called get_bulk_keyword_analysis.
EmptyExpansionReport ==
    /\ (comp_pc = "called" /\ sug_pc = "returned" /\ sug_result = <<>>) =>
          ENABLED CompEmpty
    /\ (comp_pc = "returned" /\ sug_result = <<>>) =>
          /\ comp_report.total_found = 0
          /\ comp_report.competitor_keywords = <<>>
          /\ comp_report.analysis_summary = "No competitor keywords found"
          /\ comp_bulk_calls = 0

\* the expansion was empty although a limit >= 1 was asked for
EmptyExpansionWitness ==
    /\ comp_pc = "returned"
    /\ limit >= 1
    /\ sug_result = <<>>
    /\ comp_report.total_found = 0

\* C12: competitor_keywords holds the records of the bulk analysis ordered
\* by magnet_iq_score descending, and records of equal magnet_iq_score are
\* in the order in which the expander returned their keywords.
CompetitorsSortedStable ==
    (comp_pc = "returned" /\ sug_result # <<>>) =>
        LET sorted == comp_report.competitor_keywords
        IN  /\ Len(sorted) = Len(comp_data)
            /\ \A k \in 1..Len(comp_data) : InList(comp_data[k], sorted)
            /\ \A i, j \in 1..Len(sorted) :
                  i < j =>
                      /\ sorted[i].magnet_iq_score >= sorted[j].magnet_iq_score
                      /\ sorted[i].magnet_iq_score = sorted[j].magnet_iq_score =>
                            ExpanderPos(sorted[i].keyword) < ExpanderPos(sorted[j].keyword)

\* the sort moved a record forward, and two records have equal scores
SortedWithTieWitness ==
    /\ comp_pc = "returned"
    /\ sug_result # <<>>
    /\ LET sorted == comp_report.competitor_keywords
       IN  /\ \E i, j \in 1..Len(sorted) :
                  /\ i < j
                  /\ sorted[i].magnet_iq_score = sorted[j].magnet_iq_score
           /\ \E i, j \in 1..Len(sorted) :
                  /\ i < j
                  /\ ExpanderPos(sorted[i].keyword) > ExpanderPos(sorted[j].keyword)

\* C13: in a non-empty report top_opportunity is the first record of the
\* sorted list and no record has a higher magnet_iq_score;
\* high_opportunity_count counts magnet_iq_score > 70 with competition_score
\* < 0.6, low_competition_keywords counts competition = 'low',
\* high_volume_keywords counts search_volume > 5000, total_search_volume is
\* the sum of search_volume and total_found the number of records.
SummaryStatistics ==
    (comp_pc = "returned" /\ sug_result # <<>>) =>
        LET sorted == comp_report.competitor_keywords
            summary == comp_report.analysis_summary
            Idx == 1..Len(sorted)
        IN  /\ comp_report.total_found = Len(sug_result)
            /\ comp_report.total_found = Len(sorted)
            /\ summary.top_opportunity = sorted[1]
            /\ \A k \in Idx :
                  summary.top_opportunity.magnet_iq_score >= sorted[k].magnet_iq_score
            /\ summary.high_opportunity_count =
                  Cardinality({k \in Idx : /\ sorted[k].magnet_iq_score > 70
                                           /\ sorted[k].competition_score < 120})
            /\ summary.low_competition_keywords =
                  Cardinality({k \in Idx : sorted[k].competition = "low"})
            /\ summary.high_volume_keywords =
                  Cardinality({k \in Idx : sorted[k].search_volume > 5000})
            /\ summary.total_search_volume = SumOf(FieldOf(comp_data, "search_volume"))

\* a report in which each of the counts is positive and below total_found
SummaryStatisticsWitness ==
    /\ comp_pc = "returned"
    /\ sug_result # <<>>
    /\ comp_report.total_found >= 3
    /\ comp_report.analysis_summary.high_opportunity_count \in 1..2
    /\ comp_report.analysis_summary.low_competition_keywords \in 1..2
    /\ comp_report.analysis_summary.high_volume_keywords \in 1..2
    /\ comp_report.analysis_summary.top_opportunity
          # comp_report.competitor_keywords[Len(comp_report.competitor_keywords)]

\* C15: called with an empty or whitespace-only primary_keyword,
\* get_competitor_analysis returns no report and scores no candidate.
CompetitorPreconditionEnforced ==
    PyStrip(seed_keyword) = "" =>
        /\ comp_pc # "returned"
        /\ comp_bulk_calls = 0
\* C14: called with limit <= 0, get_keyword_suggestions fails with a
\* precondition error: it returns no list.
NonPositiveLimitRejected == limit <= 0 => sug_pc # "returned"
\* the trigger words of each category, in the order in which
\* categorize_keyword tests them
category_triggers ==
    <<[name |-> "electronics",
       words |-> {"phone", "mobile", "laptop", "tablet", "headphone", "speaker", "camera"}],
      [name |-> "fashion",
       words |-> {"shirt", "dress", "saree", "jeans", "shoes", "bag"}],
      [name |-> "books",        words |-> {"book", "novel", "guide", "manual"}],
      [name |-> "home_kitchen", words |-> {"kitchen", "home", "furniture", "decor"}],
      [name |-> "health",       words |-> {"vitamin", "supplement", "medicine", "health"}],
      [name |-> "beauty",       words |-> {"cream", "lotion", "makeup", "beauty", "skin"}],
      [name |-> "sports",       words |-> {"sports", "fitness", "gym", "exercise"}]>>

\* the categories one of whose trigger words occurs in the keyword, as
\* positions in the priority order
MatchingCategories(keyword) ==
    {k \in 1..Len(category_triggers) :
        \E w \in category_triggers[k].words : Contains(PyLower(keyword), w)}

\* C16: categorize_keyword returns the first category in the order
\* electronics, fashion, books, home_kitchen, health, beauty, sports one of
\* whose trigger words occurs in the lowercased keyword, 'default' when
\* none occurs; 'wireless bluetooth headphones' is electronics.
FirstMatchingCategory ==
    cat_result # "<none>" =>
        LET matching == MatchingCategories(score_keyword)
        IN  /\ matching = {} => cat_result = "default"
            /\ matching # {} =>
                  \E k \in matching :
                      /\ \A j \in matching : k <= j
                      /\ cat_result = category_triggers[k].name
            /\ score_keyword = "wireless bluetooth headphones" =>
                  cat_result = "electronics"

\* a keyword with trigger words of two categories, in upper case, whose
\* later trigger word belongs to the earlier category
FirstMatchingCategoryWitness ==
    /\ score_keyword = "SHOES Laptop"
    /\ Cardinality(MatchingCategories(score_keyword)) = 2
    /\ cat_result = "electronics"
\* the fields of the record of predict_optimal_bid_enhanced
ScoredFields ==
    {"keyword", "category", "search_volume", "estimated_cpc", "suggested_bids",
     "magnet_iq_score", "competition_data", "trend_data", "aba_data",
     "confidence", "reasoning", "market", "currency"}

\* C17: for a keyword that is non-empty after trimming, in every month and
\* for every category, predict_optimal_bid_enhanced raises nothing (its
\* table lookups succeed, previous_trend is not zero) and returns a record
\* with all its fields.
ScoringNeverRaises ==
    PyStrip(score_keyword) # "" =>
        /\ scoring_exception(score_keyword, month) = ""
        /\ \A k \in 1..Len(score_results) :
              /\ ~IsException(score_results[k])
              /\ DOMAIN score_results[k] = ScoredFields
              /\ DOMAIN score_results[k].trend_data =
                    {"trend_percentage", "trend_direction", "seasonal_factor"}
              /\ DOMAIN score_results[k].suggested_bids =
                    {"conservative", "optimal", "aggressive"}
              /\ score_results[k].category = categorize_keyword(score_keyword)

\* a record scored in January for a category without a seasonal pattern of
\* its own
ScoringJanuaryWitness ==
    /\ month = 1
    /\ Len(score_results) >= 1
    /\ PyStrip(score_keyword) # ""
    /\ score_results[1].category = "sports"
    /\ score_results[1].trend_data.seasonal_factor = 25
IsFallback(record) == record.data_source = "Fallback Algorithm"
IsScored(record) == record.data_source = "Enhanced AI + Amazon Data"

\* C18: a fallback record has the fields of a scored record, its keyword is
\* the input keyword, and its values depend on the keyword alone: two
\* fallback records of one keyword are equal.
FallbackFromKeywordAlone ==
    \A i, j \in 1..Len(rec_results) :
        IsFallback(rec_results[i]) =>
            /\ rec_results[i].keyword = score_keyword
            /\ IsScored(rec_results[j]) => DOMAIN rec_results[i] = DOMAIN rec_results[j]
            /\ IsFallback(rec_results[j]) => rec_results[i] = rec_results[j]

\* C19: the confidence of a keyword's fallback record is lower than the
\* confidence of a scored record.
FallbackConfidenceLower ==
    \A i, j \in 1..Len(rec_results) :
        (IsFallback(rec_results[i]) /\ IsScored(rec_results[j])) =>
            rec_results[i].confidence < rec_results[j].confidence
\* the distinct valid candidates at hand: the stripped lowercase texts,
\* longer than 2, of the external suggestions and of all the variants the
\* strategies generate for the seed
ValidCandidates ==
    LET generated == expansion_unique(seed_keyword, <<>>)
        texts == {PyLower(PyStrip(amazon_suggestions[k])) : k \in 1..Len(amazon_suggestions)}
                 \cup {PyLower(PyStrip(generated[k])) : k \in 1..Len(generated)}
    IN  {t \in texts : Len(t) > 2}

\* C20: for a non-empty seed, whenever the external suggestions and the
\* generated variants hold at least limit distinct valid candidates,
\* get_keyword_suggestions returns exactly limit items, also when the
\* external list has case variants or entries of length <= 2.
ReturnsLimitWhenCandidatesSuffice ==
    (/\ sug_pc = "returned"
     /\ PyStrip(seed_keyword) # ""
     /\ limit >= 1
     /\ Cardinality(ValidCandidates) >= limit) =>
        Len(sug_result) = limit
\* 2000 times the reference value
\*   min(40, volume/500) - competition_score*30 + (20 if a high-intent word
\*   is present else 0) + max(0, 15 - 2*word_count)
\* of the call in fn_args (competition_score is in 1/40)
MagnetReference2000 ==
    LET words == WordCount(fn_args.keyword)
        intent == \E k \in 1..Len(high_intent_words) :
                      Contains(PyLower(fn_args.keyword), high_intent_words[k])
    IN  (IF fn_args.search_volume >= 20000 THEN 80000 ELSE 4 * fn_args.search_volume)
        - 1500 * fn_args.competition_score
        + (IF intent THEN 40000 ELSE 0)
        + (IF 15 - 2 * words > 0 THEN 2000 * (15 - 2 * words) ELSE 0)

MagnetReturned == fn_args \in MagnetCalls /\ fn_result # NoCall

\* C21 (as amended): calculate_magnet_iq_score is the reference value
\* truncated toward zero to an integer and then clamped to 1..100; it is 1
\* whenever the reference value is below 1.
MagnetIsTruncatedClampedReference ==
    MagnetReturned =>
        /\ fn_result.value \in 1..100
        /\ MagnetReference2000 < 2000 => fn_result.value = 1
        /\ MagnetReference2000 >= 200000 => fn_result.value = 100
        /\ (MagnetReference2000 >= 2000 /\ MagnetReference2000 < 200000) =>
              /\ 2000 * fn_result.value <= MagnetReference2000
              /\ MagnetReference2000 < 2000 * (fn_result.value + 1)

\* the reference value is negative and not whole, and the result is 1
MagnetLowerClampWitness ==
    /\ MagnetReturned
    /\ MagnetReference2000 < 0
    /\ MagnetReference2000 % 2000 # 0
    /\ fn_result.value = 1

\* C21 (as stated): calculate_magnet_iq_score equals the reference value
\* clamped to [1, 100].
MagnetIsClampedReference ==
    MagnetReturned =>
        2000 * fn_result.value =
            (IF MagnetReference2000 < 2000 THEN 2000
             ELSE IF MagnetReference2000 > 200000 THEN 200000
             ELSE MagnetReference2000)

\* C22: in every scored record each of the four sub-factors of
\* competition_data (length, generic, brand, intent) lies in [0, 1], and
\* competition_score is their arithmetic mean (factors in tenths, score in
\* 1/40).
CompetitionFactorsBoundedMean ==
    \A k \in 1..Len(score_results) :
        ~IsException(score_results[k]) =>
            LET data == score_results[k].competition_data
                factors == data.competition_factors
            IN  /\ \A name \in DOMAIN factors :
                      factors[name] >= 0 /\ factors[name] <= 10
                /\ data.competition_score =
                      factors.length + factors.generic + factors.brand + factors.intent

\* C23: in every scored record competition_level is "low" exactly when
\* competition_score < 0.4, "medium" exactly when 0.4 <= competition_score
\* < 0.7, and "high" exactly when competition_score >= 0.7 (score in 1/40).
CompetitionLevelThresholds ==
    \A k \in 1..Len(score_results) :
        ~IsException(score_results[k]) =>
            LET data == score_results[k].competition_data
            IN  /\ data.competition_level \in {"low", "medium", "high"}
                /\ data.competition_level = "low" <=> data.competition_score < 16
                /\ data.competition_level = "medium" <=>
                      (16 <= data.competition_score /\ data.competition_score < 28)
                /\ data.competition_level = "high" <=> data.competition_score >= 28

\* a record whose competition_score is exactly 0.7, labelled "high"
CompetitionLevelBoundaryWitness ==
    /\ score_keyword = "buy shoes"
    /\ Len(score_results) >= 1
    /\ score_results[1].competition_data.competition_score = 28
    /\ score_results[1].competition_data.competition_level = "high"

\* seasonal_trends.get(category, seasonal_trends['default'])
SeasonalCurve(category) ==
    IF category \in DOMAIN seasonal_trends
    THEN seasonal_trends[category]
    ELSE seasonal_trends["default"]

\* C24: for every category and month, seasonal_factor is the month's slot
\* value divided by the mean of the category's 12-slot curve, and a category
\* without a curve of its own has seasonal_factor 1 (seasonal_factor in
\* 1/25: factor/25 = slot / (sum/12)).
SeasonalFactorIsSlotOverMean ==
    \A k \in 1..Len(score_results) :
        ~IsException(score_results[k]) =>
            LET curve == SeasonalCurve(score_results[k].category)
                seasonal_factor == score_results[k].trend_data.seasonal_factor
            IN  /\ seasonal_factor * SumOf(curve) = 25 * 12 * curve[month]
                /\ score_results[k].category \notin DOMAIN seasonal_trends =>
                      seasonal_factor = 25

\* the reasoning strings that list clauses in the order opportunity,
\* competition, length, intent, category, each at most once, and end with
\* the category clause
OrderedReasonings(category) ==
    {PyJoin(" | ", opportunity \o competition \o length \o intent
                    \o <<CategoryTitle(category) \o " category analysis">>) :
        opportunity \in {<<>>, <<"High-opportunity keyword">>, <<"Low-opportunity keyword">>},
        competition \in {<<>>, <<"High competition market">>, <<"Low competition opportunity">>},
        length \in {<<>>, <<"Long-tail advantage">>},
        intent \in {<<>>, <<"High purchase intent">>}}

\* C25: the reasoning string lists its clauses in the fixed order
\* opportunity, competition, length, intent, category, each at most once,
\* joined by " | ", and ends with "<Category> category analysis"; for
\* "buy laptop online india" it contains "Electronics".
ReasoningClauseOrder ==
    \A k \in 1..Len(score_results) :
        ~IsException(score_results[k]) =>
            /\ score_results[k].reasoning \in OrderedReasonings(score_results[k].category)
            /\ score_keyword = "buy laptop online india" =>
                  Contains(score_results[k].reasoning, "Electronics")

\* a reasoning of three clauses, the category clause last
ReasoningThreeClausesWitness ==
    /\ score_keyword = "buy laptop online india"
    /\ Len(score_results) >= 1
    /\ score_results[1].reasoning =
          "Long-tail advantage | High purchase intent | Electronics category analysis"

\* the tasks of call c that hold a slot
Holding(c) == {i \in Tasks(c) : task_pc[c][i] = "running"}

\* C26: for any finite keyword list get_bulk_keyword_analysis eventually
\* ends: during the gather the free slots are 5 minus the tasks inside
\* `async with` (a slot is released when a scoring call finishes, returned
\* or raised), eventually every task has obtained a slot and finished, the
\* free slots are back to 5, and a call on a list of strings has returned.
BulkEventuallyReturns ==
    /\ [](\A c \in Calls : bulk_pc[c] = "gather" =>
            semaphore[c] = 5 - Cardinality(Holding(c)))
    /\ <>(\A c \in Calls :
            /\ bulk_pc[c] \in {"returned", "raised"}
            /\ \A i \in Tasks(c) : task_pc[c][i] = "done"
            /\ Len(bulk_keywords[c]) > 0 => semaphore[c] = 5
            /\ (\A i \in Tasks(c) : IsStr(bulk_keywords[c][i])) =>
                  bulk_pc[c] = "returned")

\* a call on more keywords than slots has returned, a scoring call of it
\* having raised, and its slots are back to 5
BulkReturnedAfterRaiseWitness ==
    \E c \in Calls :
        /\ Len(bulk_keywords[c]) > 5
        /\ bulk_pc[c] = "returned"
        /\ semaphore[c] = 5
        /\ \E i \in Tasks(c) : task_failed[c][i]

\* C27: every record returned by get_bulk_keyword_analysis, scored or
\* fallback, is internally consistent: its competition label is the one its
\* competition_score has under the thresholds low < 0.4 <= medium < 0.7 <=
\* high (score in 1/200), and its trend_direction is the sign of its
\* trend_percentage, "stable" only for zero.
RecordsInternallyConsistent ==
    \A k \in 1..Len(comp_data) :
        /\ comp_data[k].competition =
              (IF comp_data[k].competition_score < 80 THEN "low"
               ELSE IF comp_data[k].competition_score < 140 THEN "medium"
               ELSE "high")
        /\ comp_data[k].trend_direction =
              (IF comp_data[k].trend_percentage > 0 THEN "up"
               ELSE IF comp_data[k].trend_percentage < 0 THEN "down"
               ELSE "stable")

\* the same for the scored records alone
ScoredRecordsConsistent ==
    \A k \in 1..Len(comp_data) :
        IsScored(comp_data[k]) =>
            /\ comp_data[k].competition =
                  (IF comp_data[k].competition_score < 80 THEN "low"
                   ELSE IF comp_data[k].competition_score < 140 THEN "medium"
                   ELSE "high")
            /\ comp_data[k].trend_direction =
                  (IF comp_data[k].trend_percentage > 0 THEN "up"
                   ELSE IF comp_data[k].trend_percentage < 0 THEN "down"
                   ELSE "stable")

\* C28: in every scored record the reasoning contains "High competition
\* market" exactly when competition_level is "high", and "Low competition
\* opportunity" exactly when competition_level is "low", also at
\* competition_score = 0.7.
ReasoningMatchesCompetitionLevel ==
    \A k \in 1..Len(score_results) :
        ~IsException(score_results[k]) =>
            LET level == score_results[k].competition_data.competition_level
                reasoning == score_results[k].reasoning
            IN  /\ Contains(reasoning, "High competition market") <=> level = "high"
                /\ Contains(reasoning, "Low competition opportunity") <=> level = "low"

\* C29: full scoring can produce a high-opportunity keyword: among the
\* keywords scored there is one for which predict_optimal_bid_enhanced
\* yields magnet_iq_score > 70 (here: once every keyword of
\* OpportunityList has been scored by the process).
HighOpportunityReachable ==
    Len(score_results) = Len(OpportunityList) =>
        \E k \in 1..Len(score_results) :
            /\ ~IsException(score_results[k])
            /\ score_results[k].magnet_iq_score > 70

\* every scored record has magnet_iq_score at most 51
ScoredMagnetAtMost51 ==
    \A k \in 1..Len(score_results) :
        ~IsException(score_results[k]) => score_results[k].magnet_iq_score <= 51

\* with a competition_score of at least 0.275, the least that
\* calculate_competition_analysis gives, the magnet score is at most 66
MagnetAtMost66 ==
    (MagnetReturned /\ fn_args.competition_score >= 11) => fn_result.value <= 66

\* the clients that have a live browser context
LiveClients == {c \in DOMAIN h10_clients : h10_clients[c].context = "open"}

\* C30: under any interleaving of concurrent scrape_keywords requests at
\* most one Helium10Client has a live browser context, and no request
\* scrapes with a client that another request has closed or replaced: the
\* client of a request inside scrape_magnet has its context open and is the
\* shared client.
SharedClientExclusive ==
    /\ Cardinality(LiveClients) <= 1
    /\ \A c \in DOMAIN h10_clients : h10_clients[c].leaked = 0
    /\ \A r \in DOMAIN h10_req :
          h10_req[r].pc = "scraping" =>
              /\ h10_clients[h10_req[r].client].context = "open"
              /\ h10_instance = h10_req[r].client
====
